---- MODULE Spec2Model ----
(***************************************************************************)
(* The vnode diff engine (vnode_diff) and the journal applier              *)
(* (vnode_applyJournal) of src/e2e-isolated/utils/index.ts.                *)
(*                                                                         *)
(* JavaScript values are tagged records [t, n, s]: t is the typeof / kind, *)
(* n the number or the identity (vnode id, props-object id), s the string. *)
(* Array indices are kept 0-based as in the source; a sequence element is  *)
(* read as a[i + 1].                                                       *)
(***************************************************************************)
EXTENDS Integers, Sequences, FiniteSets, TLC

VARIABLES
  vnodes,        \* the vnode store: id -> [kind, tag, text, attrs, parent, kids, dispatch,
                 \*   dom (the attributes of the DOM element), cleaned]
  journal,       \* container.$journal$, a flat array of entries
  asyncQueue,    \* flat array: jsx, host, jsx, host, ...
  stack,         \* the traversal stack, one record per stackPush
  vParent, vCurrent, vNewNode, vSiblings, vSiblingsIdx,
  jsxChildren, jsxValue, jsxIdx, jsxCount,
  pc,            \* position of the caller / of vnode_diff / of vnode_applyJournal
  err,           \* "" or the error that stopped the pass
  pending,       \* the pair drainAsyncQueue is suspended on (a promise and its host)
  applyIdx,      \* idx of vnode_applyJournal
  round,         \* completed diff-then-apply rounds
  lastJsx,       \* the descriptor handed to the running / last vnode_diff
  prevJsx,       \* the descriptor of the round before
  startNodes,    \* the vnode store when the running vnode_diff was called
  enqLog,        \* history: every (jsx, host) pair pushed on asyncQueue, in push order
  diffLog,       \* history: every (jsx, host) pair handed to diff() by drainAsyncQueue
  tick           \* flips at every step of the synchronous engine (diff, drainAsyncQueue)

vars == <<vnodes, journal, asyncQueue, stack, vParent, vCurrent, vNewNode, vSiblings,
          vSiblingsIdx, jsxChildren, jsxValue, jsxIdx, jsxCount, pc, err, pending,
          applyIdx, round, lastJsx, prevJsx, startNodes, enqLog, diffLog, tick>>

----------------------------------------------------------------------------
(* Bounds of the model *)

MaxRounds == 2

----------------------------------------------------------------------------
(* JavaScript values *)

Val(t, n, s) == [t |-> t, n |-> n, s |-> s]
Str(s) == Val("string", 0, s)
Num(n) == Val("number", n, "")
Null == Val("null", 0, "")
Undefined == Val("undefined", 0, "")
Obj(i) == Val("object", i, "")

NoNode == 0
VNodeRef(id) == IF id = NoNode THEN Null ELSE Val("vnode", id, "")
RefNode(v) == IF v.t = "vnode" THEN v.n ELSE NoNode

\* a == b of JavaScript on the values the engine compares (keys): null and
\* undefined are loosely equal to each other and to nothing else.
LooseEq(a, b) ==
  \/ a = b
  \/ (a.t \in {"null", "undefined"} /\ b.t \in {"null", "undefined"})

\* String(n) for the numbers of the model
NumToString(n) == CASE n = 0 -> "0" [] n = 1 -> "1" [] n = 2 -> "2" [] OTHER -> "9"

VNodeJournalOpCode_Insert == 0
VNodeJournalOpCode_Truncate == 1
VNodeJournalOpCode_Remove == 2
VNodeJournalOpCode_Move == 3
VNodeJournalOpCode_TextSet == 4
VNodeJournalOpCode_ElementInsert == 5
VNodeJournalOpCode_Attributes == 6
VNodeJournalOpCode_FragmentInsert == 7

ELEMENT_KEY == "q:key"
ELEMENT_PROPS == "q:props"
OnRenderProp == "q:renderFn"

\* The keys of the model in the order of JavaScript's string comparison.
KeyOrder == <<"a", "b", "c", "d", "on:click", "onClick$", "q:key", "q:props", "q:renderFn">>
Rank(k) == CHOOSE i \in 1..Len(KeyOrder) : KeyOrder[i] = k
KeyLess_flipped(a, b) == Rank(a.s) > Rank(b.s)

\* srcKey < dstKey
KeyLess(a, b) == Rank(a.s) < Rank(b.s)
\* key.startsWith('on:')
StartsWithOnColon(k) == k.t = "string" /\ k.s \in {"on:click"}
\* key.startsWith('on') && key.endsWith('$')
IsEventKey(k) == k.t = "string" /\ k.s \in {"onClick$"}

Last(q) == q[Len(q)]
Front(q) == SubSeq(q, 1, Len(q) - 1)

----------------------------------------------------------------------------
(* Descriptors (JSX values) *)

Jsx(t, s, n, tag, key, props, ck, c) ==
  [t |-> t, s |-> s, n |-> n, tag |-> tag, key |-> key, props |-> props, ck |-> ck, c |-> c]
JText(s) == Jsx("string", s, 0, "", Null, <<>>, "undef", <<>>)
JNum(n) == Jsx("number", "", n, "", Null, <<>>, "undef", <<>>)
JArr(items) == Jsx("array", "", 0, "", Null, <<>>, "arr", items)
\* an element: props is the props object as <<key, value>> pairs in insertion
\* order; ck says what jsx.children is: "arr" an array (c), "one" a single
\* value (c[1]), "undef" undefined.
JEl(tag, key, props, ck, c) == Jsx("element", "", 0, tag, key, props, ck, c)
JFrag(ck, c) == Jsx("fragment", "", 0, "", Null, <<>>, ck, c)
\* a component: s is the $hash$ of its QRL, n the identity of its props object
JComp(hash, propsId) == Jsx("component", hash, propsId, "", Null, <<>>, "undef", <<>>)
JSlot == Jsx("slot", "", 0, "", Null, <<>>, "undef", <<>>)
JNull == Jsx("null", "", 0, "", Null, <<>>, "undef", <<>>)
JBool == Jsx("boolean", "", 0, "", Null, <<>>, "undef", <<>>)
JSignal == Jsx("signal", "", 0, "", Null, <<>>, "undef", <<>>)
JBadType == Jsx("badtype", "", 0, "", Null, <<>>, "undef", <<>>)
JObject == Jsx("object", "", 0, "", Null, <<>>, "undef", <<>>)

----------------------------------------------------------------------------
(* The tree primitives of ./vnode, by their contracts *)

VNode(kind, tag, text) ==
  [kind |-> kind, tag |-> tag, text |-> text, attrs |-> <<>>, parent |-> NoNode,
   kids |-> <<>>, dispatch |-> FALSE, dom |-> <<>>, cleaned |-> FALSE]

IndexOf(q, x) == IF \E i \in 1..Len(q) : q[i] = x
                 THEN CHOOSE i \in 1..Len(q) : q[i] = x
                 ELSE 0

vnode_getFirstChild(vn, v) == IF vn[v].kids = <<>> THEN NoNode ELSE Head(vn[v].kids)

vnode_getNextSibling(vn, v) ==
  LET p == vn[v].parent IN
  IF p = NoNode THEN NoNode
  ELSE LET i == IndexOf(vn[p].kids, v) IN
       IF i = 0 \/ i = Len(vn[p].kids) THEN NoNode ELSE vn[p].kids[i + 1]

vnode_getType(vn, v) == vn[v].kind
vnode_isElementVNode(vn, v) == vn[v].kind = "element"
vnode_isVirtualVNode(vn, v) == vn[v].kind = "virtual"
vnode_getElementName(vn, v) == vn[v].tag
vnode_getText(vn, v) == vn[v].text

\* index (0-based, of the key) of key in a flat key/value array, or -1
mapArray_indexOf(a, key) ==
  IF \E i \in 0..(Len(a) \div 2 - 1) : a[2 * i + 1].s = key
  THEN 2 * (CHOOSE i \in 0..(Len(a) \div 2 - 1) : a[2 * i + 1].s = key)
  ELSE -1

mapArray_get(a, key) ==
  LET i == mapArray_indexOf(a, key) IN IF i = -1 THEN Null ELSE a[i + 2]

\* sorted insert, replace, or (value null) removal
mapArray_set(a, key, value) ==
  LET i == mapArray_indexOf(a, key) IN
  IF i # -1
  THEN IF value.t \in {"null", "undefined"}
       THEN SubSeq(a, 1, i) \o SubSeq(a, i + 3, Len(a))
       ELSE [a EXCEPT ![i + 2] = value]
  ELSE IF value.t \in {"null", "undefined"} THEN a
  ELSE LET before == {j \in 0..(Len(a) \div 2 - 1) : Rank(a[2 * j + 1].s) < Rank(key)}
           n == 2 * Cardinality(before)
       IN SubSeq(a, 1, n) \o <<Str(key), value>> \o SubSeq(a, n + 1, Len(a))

vnode_getProp(vn, v, key) == mapArray_get(vn[v].attrs, key)
\* setProp stores the value on the vnode only
vnode_setProp(vn, v, key, value) == [vn EXCEPT ![v].attrs = mapArray_set(@, key, value)]
\* setAttr stores the value on the vnode and on its DOM element
vnode_setAttr(vn, v, key, value) ==
  [vn EXCEPT ![v].attrs = mapArray_set(@, key, value), ![v].dom = mapArray_set(@, key, value)]
vnode_setText(vn, v, text) == [vn EXCEPT ![v].text = text]

RemoveAt(q, i) == SubSeq(q, 1, i - 1) \o SubSeq(q, i + 1, Len(q))
InsertAt(q, i, x) == SubSeq(q, 1, i - 1) \o <<x>> \o SubSeq(q, i, Len(q))

\* insertBefore(parent, node, beforeOrNull) asks for a reference that is null
\* or a child of parent other than node, and for a node that is not linked.
vnode_insertBefore_ok(vn, parent, node, before) ==
  /\ parent # NoNode /\ node # NoNode
  /\ vn[parent].kind \in {"element", "virtual"}
  /\ IndexOf(vn[parent].kids, node) = 0
  /\ before # node
  /\ (before # NoNode => IndexOf(vn[parent].kids, before) # 0)

vnode_insertBefore(vn, parent, node, before) ==
  LET ks == vn[parent].kids
      at == IF before = NoNode THEN Len(ks) + 1 ELSE IndexOf(ks, before)
  IN [vn EXCEPT ![parent].kids = InsertAt(ks, at, node), ![node].parent = parent]

\* remove(parent, node, cleanup) and truncate(parent, fromNode) ask for a
\* child of parent.
vnode_remove_ok(vn, parent, node) ==
  /\ parent # NoNode /\ node # NoNode
  /\ IndexOf(vn[parent].kids, node) # 0

vnode_remove(vn, parent, node, cleanup) ==
  [vn EXCEPT ![parent].kids = RemoveAt(@, IndexOf(@, node)), ![node].parent = NoNode,
             ![node].cleaned = @ \/ cleanup]

vnode_truncate(vn, parent, from) ==
  LET ks == vn[parent].kids
      i == IndexOf(ks, from)
  IN [v \in DOMAIN vn |->
        IF v = parent THEN [vn[v] EXCEPT !.kids = SubSeq(ks, 1, i - 1)]
        ELSE IF \E j \in i..Len(ks) : ks[j] = v THEN [vn[v] EXCEPT !.parent = NoNode]
        ELSE vn[v]]

----------------------------------------------------------------------------
(* Props objects and component bodies *)

\* The props objects of the model, by identity: the object's own keys, in
\* insertion order, and their values.  Objects 1 and 2 are two objects with
\* the same content.
PropsTable ==
  << <<<<"a", Num(1)>>>>,
     <<<<"a", Num(1)>>>>,
     <<<<"a", Num(2)>>>>,
     <<<<"b", Num(1)>>>>,
     <<<<"b", Num(1)>>, <<"a", Num(1)>>>> >>
PropsOf(o) == PropsTable[o.n]

\* Object.keys(o).sort()
RECURSIVE SortKeys(_)
SortKeys(ks) ==
  IF ks = {} THEN <<>>
  ELSE LET k == CHOOSE x \in ks : \A y \in ks : Rank(x) <= Rank(y)
       IN <<k>> \o SortKeys(ks \ {k})
ObjectKeysSorted(o) == SortKeys({PropsOf(o)[i][1] : i \in 1..Len(PropsOf(o))})
\* o[key]
ObjectGet(o, key) ==
  LET p == PropsOf(o) IN
  IF \E i \in 1..Len(p) : p[i][1] = key
  THEN p[CHOOSE i \in 1..Len(p) : p[i][1] = key][2]
  ELSE Undefined

shallowEqual_keysOnly(src, dst) ==
  ObjectKeysSorted(src) = ObjectKeysSorted(dst)

shallowEqual(src, dst) ==
  LET srcKeys == ObjectKeysSorted(src)
      dstKeys == ObjectKeysSorted(dst)
  IN IF Len(srcKeys) # Len(dstKeys) THEN FALSE
     ELSE \A idx \in 1..Len(srcKeys) :
            ~(srcKeys[idx] # dstKeys[idx]
              \/ ObjectGet(src, srcKeys[idx]) # ObjectGet(dst, dstKeys[idx]))

\* The jsx a component renders: an immediate descriptor or a promise of one.
\* "S..." components are synchronous, "P..." asynchronous; "SN" and "PN"
\* render another component.
ComponentBody(hash, o) ==
  CASE hash = "S1" -> [promise |-> FALSE, jsx |-> JText("s")]
    [] hash = "S2" -> [promise |-> FALSE,
                       jsx |-> JEl("p", Null, <<>>, "one", <<JNum(ObjectGet(o, "a").n)>>)]
    [] hash = "P1" -> [promise |-> TRUE, jsx |-> JText("p")]
    [] hash = "SN" -> [promise |-> FALSE, jsx |-> JComp("P1", o.n)]
    [] hash = "PN" -> [promise |-> TRUE, jsx |-> JFrag("arr", <<JComp("S1", o.n), JText("n")>>)]
    [] OTHER -> [promise |-> FALSE, jsx |-> JText("")]

----------------------------------------------------------------------------
(* The traversal state of one vnode_diff call, as a record *)

NullSiblings == [isNull |-> TRUE, arr |-> <<>>]
Siblings(a) == [isNull |-> FALSE, arr |-> a]

Closure ==
  [vnodes |-> vnodes, journal |-> journal, asyncQueue |-> asyncQueue, stack |-> stack,
   vParent |-> vParent, vCurrent |-> vCurrent, vNewNode |-> vNewNode,
   vSiblings |-> vSiblings, vSiblingsIdx |-> vSiblingsIdx,
   jsxChildren |-> jsxChildren, jsxValue |-> jsxValue, jsxIdx |-> jsxIdx,
   jsxCount |-> jsxCount, err |-> err, enqLog |-> enqLog]

Push(s, entries) == [s EXCEPT !.journal = @ \o entries]
Throw(s, e) == [s EXCEPT !.err = e]

stackPush(s, ck, c, descendVNode) ==
  LET frame == [jsxChildren |-> s.jsxChildren, jsxIdx |-> s.jsxIdx,
                jsxCount |-> s.jsxCount, jsxValue |-> s.jsxValue,
                vParent |-> IF descendVNode THEN s.vParent ELSE NoNode,
                vCurrent |-> IF descendVNode THEN s.vCurrent ELSE NoNode,
                vNewNode |-> IF descendVNode THEN s.vNewNode ELSE NoNode,
                vSiblings |-> IF descendVNode THEN s.vSiblings ELSE NullSiblings,
                vSiblingsIdx |-> IF descendVNode THEN s.vSiblingsIdx ELSE -1,
                descendVNode |-> descendVNode]
      s1 == [s EXCEPT !.stack = Append(@, frame)]
  IN CASE ck = "arr" ->
            [s1 EXCEPT !.jsxIdx = 0, !.jsxCount = Len(c), !.jsxChildren = c,
                       !.jsxValue = IF Len(c) > 0 THEN c[1] ELSE JNull]
       [] ck = "undef" ->
            [s1 EXCEPT !.jsxIdx = 0, !.jsxValue = JNull, !.jsxChildren = <<>>,
                       !.jsxCount = 0]
       [] OTHER ->
            [s1 EXCEPT !.jsxIdx = 0, !.jsxValue = c[1], !.jsxChildren = <<>>,
                       !.jsxCount = 1]

RECURSIVE advance(_)
RECURSIVE ascend(_)

advance(s) ==
  LET s1 == [s EXCEPT !.jsxIdx = @ + 1]
      inRange == s1.jsxIdx < s1.jsxCount
      s2 == IF inRange THEN [s1 EXCEPT !.jsxValue = s1.jsxChildren[s1.jsxIdx + 1]] ELSE s1
  IN IF ~inRange /\ s1.stack # <<>> /\ Last(s1.stack).descendVNode = FALSE
     THEN ascend(s1)
     ELSE IF s2.vNewNode # NoNode
     THEN [s2 EXCEPT !.vNewNode = NoNode]
     ELSE IF ~s2.vSiblings.isNull
     THEN LET i == s2.vSiblingsIdx + 2 IN
          [s2 EXCEPT !.vSiblingsIdx = i,
                     !.vCurrent = IF i < Len(s2.vSiblings.arr)
                                  THEN RefNode(s2.vSiblings.arr[i + 2])
                                  ELSE NoNode]
     ELSE [s2 EXCEPT !.vCurrent = IF s2.vCurrent # NoNode
                                  THEN vnode_getNextSibling(s2.vnodes, s2.vCurrent)
                                  ELSE NoNode]

ascend(s) ==
  LET f == Last(s.stack)
      s1 == [s EXCEPT !.stack = Front(@)]
      s2 == IF f.descendVNode
            THEN [s1 EXCEPT !.vSiblingsIdx = f.vSiblingsIdx, !.vSiblings = f.vSiblings,
                            !.vNewNode = f.vNewNode, !.vCurrent = f.vCurrent,
                            !.vParent = f.vParent]
            ELSE s1
      s3 == [s2 EXCEPT !.jsxValue = f.jsxValue, !.jsxCount = f.jsxCount,
                       !.jsxIdx = f.jsxIdx, !.jsxChildren = f.jsxChildren]
  IN advance(s3)

\* descend that leaves the cursor on the node it descends into
descend_noStep(s, ck, c, descendVNode) ==
  LET s1 == stackPush(s, ck, c, descendVNode) IN
  IF ~descendVNode THEN s1
  ELSE LET p == IF s1.vNewNode # NoNode THEN s1.vNewNode ELSE s1.vCurrent IN
       [s1 EXCEPT !.vSiblings = NullSiblings, !.vSiblingsIdx = -1, !.vParent = p,
                  !.vCurrent = p, !.vNewNode = NoNode]

descend(s, ck, c, descendVNode) ==
  LET s1 == stackPush(s, ck, c, descendVNode) IN
  IF ~descendVNode THEN s1
  ELSE IF s1.vCurrent = NoNode /\ s1.vNewNode = NoNode
  THEN Throw(s1, "Expecting vCurrent to be defined.")
  ELSE LET p == IF s1.vNewNode # NoNode THEN s1.vNewNode ELSE s1.vCurrent IN
       [s1 EXCEPT !.vSiblings = NullSiblings, !.vSiblingsIdx = -1, !.vParent = p,
                  !.vCurrent = vnode_getFirstChild(s1.vnodes, p), !.vNewNode = NoNode]

getInsertBefore(s) ==
  IF s.vNewNode # NoNode THEN s.vCurrent
  ELSE IF ~s.vSiblings.isNull
  THEN LET nextIdx == s.vSiblingsIdx + 3 IN
       IF nextIdx < Len(s.vSiblings.arr) THEN RefNode(s.vSiblings.arr[nextIdx + 1]) ELSE NoNode
  ELSE IF s.vCurrent = NoNode THEN NoNode
  ELSE vnode_getNextSibling(s.vnodes, s.vCurrent)

----------------------------------------------------------------------------
(* The expect* functions of vnode_diff *)

\* vnode_newElement / vnode_newText / vnode_newVirtual: a fresh vnode that is
\* not linked into the tree; its id is the next free one.
NewId(s) == Len(s.vnodes) + 1
WithNew(s, kind, tag, text) == [s EXCEPT !.vnodes = Append(@, VNode(kind, tag, text))]

expectNoMore_removeEach(s) ==
  IF s.vParent = s.vCurrent THEN Throw(s, "Parent and current can't be the same")
  ELSE IF s.vCurrent # NoNode
  THEN Push(s, <<Num(VNodeJournalOpCode_Remove), VNodeRef(s.vParent), VNodeRef(s.vCurrent)>>)
  ELSE s

expectNoMore(s) ==
  IF s.vParent = s.vCurrent THEN Throw(s, "Parent and current can't be the same")
  ELSE IF s.vCurrent # NoNode
  THEN Push(s, <<Num(VNodeJournalOpCode_Truncate), VNodeRef(s.vParent), VNodeRef(s.vCurrent)>>)
  ELSE s

RECURSIVE expectNoMoreTextNodes_unlink(_)
expectNoMoreTextNodes_unlink(s) ==
  IF s.vCurrent # NoNode /\ vnode_getType(s.vnodes, s.vCurrent) = "text"
  THEN expectNoMoreTextNodes_unlink(
         [Push(s, <<Num(VNodeJournalOpCode_Remove), VNodeRef(s.vParent), VNodeRef(s.vCurrent)>>)
            EXCEPT !.vCurrent = vnode_getNextSibling(s.vnodes, s.vCurrent),
                   !.vnodes = vnode_remove(s.vnodes, s.vParent, s.vCurrent, TRUE)])
  ELSE s

RECURSIVE expectNoMoreTextNodes(_)
expectNoMoreTextNodes(s) ==
  IF s.vCurrent # NoNode /\ vnode_getType(s.vnodes, s.vCurrent) = "text"
  THEN expectNoMoreTextNodes(
         [Push(s, <<Num(VNodeJournalOpCode_Remove), VNodeRef(s.vParent), VNodeRef(s.vCurrent)>>)
            EXCEPT !.vCurrent = vnode_getNextSibling(s.vnodes, s.vCurrent)])
  ELSE s

expectText_alwaysSet(s, text) ==
  IF s.vCurrent # NoNode /\ vnode_getType(s.vnodes, s.vCurrent) = "text"
  THEN Push(s, <<Num(VNodeJournalOpCode_TextSet), VNodeRef(s.vCurrent), Str(text)>>)
  ELSE Push(WithNew(s, "text", "", text),
            <<Num(VNodeJournalOpCode_Insert), VNodeRef(s.vParent), VNodeRef(NewId(s)),
              VNodeRef(s.vCurrent)>>)

expectText(s, text) ==
  IF s.vCurrent # NoNode /\ vnode_getType(s.vnodes, s.vCurrent) = "text"
  THEN IF text # vnode_getText(s.vnodes, s.vCurrent)
       THEN Push(s, <<Num(VNodeJournalOpCode_TextSet), VNodeRef(s.vCurrent), Str(text)>>)
       ELSE s
  ELSE Push(WithNew(s, "text", "", text),
            <<Num(VNodeJournalOpCode_Insert), VNodeRef(s.vParent), VNodeRef(NewId(s)),
              VNodeRef(s.vCurrent)>>)

\* the materializing scan of retrieveChildWithKey: r is [found, arr]
RECURSIVE retrieve_scan(_, _, _, _)
retrieve_scan(vn, vNode, key, r) ==
  IF vNode = NoNode THEN r
  ELSE LET vKey == vnode_getProp(vn, vNode, ELEMENT_KEY)
           r1 == IF r.found = NoNode /\ LooseEq(vKey, key)
                 THEN [r EXCEPT !.found = vNode]
                 ELSE [r EXCEPT !.arr = @ \o <<vKey, VNodeRef(vNode)>>]
       IN retrieve_scan(vn, vnode_getNextSibling(vn, vNode), key, r1)

\* the table lookup of retrieveChildWithKey: the first idx, from idx in steps
\* of 2, whose key is loosely equal to key, or -1
RECURSIVE retrieve_find(_, _, _)
retrieve_find(arr, idx, key) ==
  IF idx >= Len(arr) THEN -1
  ELSE IF LooseEq(arr[idx + 1], key) THEN idx
  ELSE retrieve_find(arr, idx + 2, key)

retrieveChildWithKey_keepEntry(s, key) ==
  IF s.vSiblingsIdx = -1
  THEN LET r == retrieve_scan(s.vnodes, s.vCurrent, key, [found |-> NoNode, arr |-> <<>>])
       IN [s |-> [s EXCEPT !.vSiblings = Siblings(r.arr), !.vSiblingsIdx = 0],
           node |-> r.found]
  ELSE LET idx == retrieve_find(s.vSiblings.arr, s.vSiblingsIdx, key) IN
       IF idx = -1 THEN [s |-> s, node |-> NoNode]
       ELSE [s |-> s, node |-> RefNode(s.vSiblings.arr[idx + 2])]

\* returns the closure state and the node found (or NoNode)
retrieveChildWithKey(s, key) ==
  IF s.vSiblingsIdx = -1
  THEN LET r == retrieve_scan(s.vnodes, s.vCurrent, key, [found |-> NoNode, arr |-> <<>>])
       IN [s |-> [s EXCEPT !.vSiblings = Siblings(r.arr), !.vSiblingsIdx = 0],
           node |-> r.found]
  ELSE LET idx == retrieve_find(s.vSiblings.arr, s.vSiblingsIdx, key) IN
       IF idx = -1 THEN [s |-> s, node |-> NoNode]
       ELSE [s |-> [s EXCEPT !.vSiblings =
                       Siblings(SubSeq(@.arr, 1, idx) \o SubSeq(@.arr, idx + 3, Len(@.arr)))],
             node |-> RefNode(s.vSiblings.arr[idx + 2])]

\* `record` of setBulkProps; st carries the loop's variables and the journal
record(st, vnode, key, value) ==
  LET j == IF ~st.hasDiffs
           THEN st.journal \o <<Num(VNodeJournalOpCode_Attributes), VNodeRef(vnode)>>
           ELSE st.journal
  IN [st EXCEPT !.journal = j \o <<key, value>>, !.hasDiffs = TRUE]

\* idx < length ? attrs[idx++] : null, as [key, idx]
NextKey(attrs, idx) ==
  IF idx < Len(attrs) THEN [key |-> attrs[idx + 1], idx |-> idx + 1]
  ELSE [key |-> Null, idx |-> idx]

RECURSIVE setBulkProps_loop(_, _, _, _)
setBulkProps_loop(st, vnode, srcAttrs, dstAttrs) ==
  IF ~(st.srcKey # Null \/ st.dstKey # Null) THEN st
  ELSE IF LooseEq(st.srcKey, Null)
  THEN LET st1 == IF StartsWithOnColon(st.dstKey)
                  THEN [st EXCEPT !.patchEventDispatch = TRUE]
                  ELSE record(st, vnode, st.dstKey, Null)
           d == NextKey(dstAttrs, st.dstIdx + 1)
       IN setBulkProps_loop([st1 EXCEPT !.dstKey = d.key, !.dstIdx = d.idx],
                            vnode, srcAttrs, dstAttrs)
  ELSE IF LooseEq(st.dstKey, Null)
  THEN LET st1 == IF IsEventKey(st.srcKey)
                  THEN [st EXCEPT !.patchEventDispatch = TRUE]
                  ELSE st
           st2 == record(st1, vnode, st.srcKey, srcAttrs[st.srcIdx + 1])
           n == NextKey(srcAttrs, st.srcIdx + 1)
       IN setBulkProps_loop([st2 EXCEPT !.srcKey = n.key, !.srcIdx = n.idx],
                            vnode, srcAttrs, dstAttrs)
  ELSE IF LooseEq(st.srcKey, st.dstKey)
  THEN LET srcValue == srcAttrs[st.srcIdx + 1]
           dstValue == dstAttrs[st.dstIdx + 1]
           st1 == IF srcValue # dstValue THEN record(st, vnode, st.dstKey, srcValue) ELSE st
           n == NextKey(srcAttrs, st.srcIdx + 1)
           d == NextKey(dstAttrs, st.dstIdx + 1)
       IN setBulkProps_loop([st1 EXCEPT !.srcKey = n.key, !.srcIdx = n.idx,
                                        !.dstKey = d.key, !.dstIdx = d.idx],
                            vnode, srcAttrs, dstAttrs)
  ELSE IF KeyLess(st.srcKey, st.dstKey)
  THEN LET st1 == record(st, vnode, st.srcKey, srcAttrs[st.srcIdx + 1])
           n == NextKey(srcAttrs, st.srcIdx + 1)
       IN setBulkProps_loop([st1 EXCEPT !.srcKey = n.key, !.srcIdx = n.idx],
                            vnode, srcAttrs, dstAttrs)
  ELSE LET st1 == record(st, vnode, st.dstKey, Null)
           d == NextKey(dstAttrs, st.dstIdx + 1)
       IN setBulkProps_loop([st1 EXCEPT !.dstKey = d.key, !.dstIdx = d.idx],
                            vnode, srcAttrs, dstAttrs)

\* dstAttrs is the vnode's own key/value run (the array from PROPS_OFFSET on)
setBulkProps(s, vnode, srcAttrs) ==
  LET dstAttrs == s.vnodes[vnode].attrs
      n == NextKey(srcAttrs, 0)
      d == NextKey(dstAttrs, 0)
      st == setBulkProps_loop(
              [journal |-> s.journal, hasDiffs |-> FALSE, patchEventDispatch |-> FALSE,
               srcIdx |-> n.idx, dstIdx |-> d.idx, srcKey |-> n.key, dstKey |-> d.key],
              vnode, srcAttrs, dstAttrs)
  IN [s EXCEPT !.journal = st.journal,
               !.vnodes[vnode].dispatch = @ \/ st.patchEventDispatch]

\* jsx.attrs as expectElement builds it from jsx.props and jsx.key
RECURSIVE attrsFromProps(_, _)
attrsFromProps(props, acc) ==
  IF props = <<>> THEN acc
  ELSE attrsFromProps(Tail(props), mapArray_set(acc, Head(props)[1], Head(props)[2]))

jsxAttrsOf(jsx) ==
  LET a == attrsFromProps(jsx.props, <<>>) IN
  IF jsx.key # Null THEN mapArray_set(a, ELEMENT_KEY, jsx.key) ELSE a

InsertNewElement(s, tag) ==
  [Push(WithNew(s, "element", tag, ""),
        <<Num(VNodeJournalOpCode_Insert), VNodeRef(s.vParent), VNodeRef(NewId(s)),
          VNodeRef(s.vCurrent)>>)
     EXCEPT !.vNewNode = NewId(s)]

expectElement(s, jsx, tag) ==
  LET isSameTagName == /\ s.vCurrent # NoNode
                       /\ vnode_isElementVNode(s.vnodes, s.vCurrent)
                       /\ tag = vnode_getElementName(s.vnodes, s.vCurrent)
      \* jsxKey is assigned only when isSameTagName is truthy
      jsxKey == IF isSameTagName THEN jsx.key ELSE Undefined
      s1 == IF isSameTagName
               /\ LooseEq(jsxKey, vnode_getProp(s.vnodes, s.vCurrent, ELEMENT_KEY))
            THEN s
            ELSE IF jsxKey # Null
            THEN LET r == retrieveChildWithKey(s, jsxKey) IN
                 IF r.node = NoNode
                 THEN InsertNewElement(r.s, tag)
                 ELSE [Push(r.s, <<Num(VNodeJournalOpCode_Move), VNodeRef(r.s.vParent),
                                   VNodeRef(r.node), VNodeRef(r.s.vCurrent)>>)
                         EXCEPT !.vNewNode = r.node]
            ELSE InsertNewElement(s, tag)
  IN setBulkProps(s1, IF s1.vNewNode # NoNode THEN s1.vNewNode ELSE s1.vCurrent,
                  jsxAttrsOf(jsx))

\* vNewNode is assigned while the arguments of journal.push are evaluated,
\* before getInsertBefore runs
expectVirtual(s) ==
  IF s.vCurrent # NoNode /\ vnode_isVirtualVNode(s.vnodes, s.vCurrent) THEN s
  ELSE LET s1 == [WithNew(s, "virtual", "", "") EXCEPT !.vNewNode = NewId(s)]
           before == IF s1.vCurrent = NoNode THEN NoNode ELSE getInsertBefore(s1)
       IN Push(s1, <<Num(VNodeJournalOpCode_Insert), VNodeRef(s1.vParent),
                     VNodeRef(s1.vNewNode), VNodeRef(before)>>)

expectSlot_ignore(s) == [s EXCEPT !.jsxIdx = @ + 1]

expectSlot(s) == Throw(s, "IMPLEMENT")

QJsx(promise, jsx) == [isHost |-> FALSE, host |-> NoNode, promise |-> promise, jsx |-> jsx]
QHost(host) == [isHost |-> TRUE, host |-> host, promise |-> FALSE, jsx |-> JNull]

\* executeComponent2: keeps the props on the host and returns the jsx of the
\* component, or a promise of it
executeComponent2_vnodes(vn, host, jsxProps) == vnode_setProp(vn, host, ELEMENT_PROPS, jsxProps)

expectComponent(s, jsx) ==
  LET host == IF s.vCurrent # NoNode THEN s.vCurrent ELSE s.vNewNode
      componentQRL == Str(jsx.s)
      vNodeQrl == vnode_getProp(s.vnodes, host, OnRenderProp)
      hashDiffers == componentQRL # vNodeQrl
      s1 == IF hashDiffers
            THEN [s EXCEPT !.vnodes = vnode_setProp(@, host, OnRenderProp, componentQRL)]
            ELSE s
      vNodeProps == vnode_getProp(s1.vnodes, host, ELEMENT_PROPS)
      jsxPros == Obj(jsx.n)
  IN IF ~hashDiffers /\ vNodeProps.t # "object"
     THEN Throw(s1, "TypeError: Cannot convert undefined or null to object")
     ELSE LET shouldRender == hashDiffers \/ ~shallowEqual(jsxPros, vNodeProps)
              body == ComponentBody(jsx.s, jsxPros)
          IN IF shouldRender
             THEN [s1 EXCEPT !.vnodes = executeComponent2_vnodes(@, host, jsxPros),
                             !.asyncQueue = @ \o <<QJsx(body.promise, body.jsx), QHost(host)>>,
                             !.enqLog = Append(@, <<body.jsx, host>>)]
             ELSE s1

----------------------------------------------------------------------------
(* diff(): the prologue, one pass of the inner loop, the end of a frame *)

diff_begin(s, jsxNode, vStartNode) ==
  stackPush([s EXCEPT !.vParent = vStartNode, !.vNewNode = NoNode,
                      !.vCurrent = vnode_getFirstChild(s.vnodes, vStartNode)],
            IF jsxNode.t = "array" THEN "arr" ELSE "one",
            IF jsxNode.t = "array" THEN jsxNode.c ELSE <<jsxNode>>,
            TRUE)

\* one pass of `while (jsxIdx < jsxCount)`
diff_iter(s) ==
  LET v == s.jsxValue IN
  IF s.vParent = s.vCurrent THEN Throw(s, "Parent and current can't be the same")
  ELSE CASE v.t = "string" -> advance(expectText(s, v.s))
         [] v.t = "number" -> advance(expectText(s, NumToString(v.n)))
         [] v.t = "array" -> descend(s, "arr", v.c, FALSE)
         [] v.t = "signal" -> Throw(s, "implement")
         [] v.t = "element" ->
              descend(expectElement(expectNoMoreTextNodes(s), v, v.tag), v.ck, v.c, TRUE)
         [] v.t = "fragment" ->
              descend(expectVirtual(expectNoMoreTextNodes(s)), v.ck, v.c, TRUE)
         [] v.t = "slot" -> expectSlot(s)
         [] v.t = "component" ->
              LET s1 == expectComponent(expectVirtual(expectNoMoreTextNodes(s)), v) IN
              IF s1.err # "" THEN s1 ELSE advance(s1)
         [] v.t = "badtype" -> Throw(s, "Unsupported type")
         [] v.t \in {"null", "object"} -> Throw(s, "Unsupported value")
         [] OTHER -> advance(expectText(s, ""))

\* `expectNoMore(); ascend();` once the inner loop has ended
diff_frameEnd(s) ==
  LET s1 == expectNoMore(s) IN
  IF s1.err # "" THEN s1 ELSE ascend(s1)

----------------------------------------------------------------------------
(* vnode_applyJournal, one opcode at a time *)

\* a run that hands every pair to the attribute setter
RECURSIVE apply_attributes_allAttr(_, _, _)
apply_attributes_allAttr(r, j, vnode) ==
  IF r.idx < Len(j) /\ j[r.idx + 1].t = "string"
  THEN apply_attributes_allAttr(
         [vn |-> vnode_setAttr(r.vn, vnode, j[r.idx + 1].s, j[r.idx + 2]),
          idx |-> r.idx + 2],
         j, vnode)
  ELSE r

\* the key/value run of an Attributes block: r is [vn, idx]
RECURSIVE apply_attributes(_, _, _)
apply_attributes(r, j, vnode) ==
  IF r.idx < Len(j) /\ j[r.idx + 1].t = "string"
  THEN LET key == j[r.idx + 1]
           value == j[r.idx + 2]
       IN apply_attributes(
            [vn |-> IF IsEventKey(key)
                    THEN vnode_setProp(r.vn, vnode, key.s, value)
                    ELSE vnode_setAttr(r.vn, vnode, key.s, value),
             idx |-> r.idx + 2],
            j, vnode)
  ELSE r

apply_iter_skipTextSet(vn, j, idx) ==
  [vn |-> vn, idx |-> IF j[idx + 1].n \in {0, 3} THEN idx + 4 ELSE idx + 3, err |-> ""]

\* one pass of `while (idx < journal.length)`: [vn, idx, err]
apply_iter(vn, j, idx) ==
  LET opCode == j[idx + 1]
      a1 == RefNode(j[idx + 2])
      a2 == RefNode(j[idx + 3])
      a3 == IF idx + 4 <= Len(j) THEN RefNode(j[idx + 4]) ELSE NoNode
      Ok(v, i) == [vn |-> v, idx |-> i, err |-> ""]
      Bad(e) == [vn |-> vn, idx |-> idx, err |-> e]
  IN IF opCode.t # "number" THEN Bad("Expecting opCode to be a number.")
     ELSE CASE opCode.n = VNodeJournalOpCode_TextSet ->
                 Ok(vnode_setText(vn, a1, j[idx + 3].s), idx + 3)
            [] opCode.n = VNodeJournalOpCode_Insert ->
                 IF vnode_insertBefore_ok(vn, a1, a2, a3)
                 THEN Ok(vnode_insertBefore(vn, a1, a2, a3), idx + 4)
                 ELSE Bad("insertBefore: bad reference")
            [] opCode.n = VNodeJournalOpCode_Truncate ->
                 IF vnode_remove_ok(vn, a1, a2)
                 THEN Ok(vnode_truncate(vn, a1, a2), idx + 3)
                 ELSE Bad("truncate: not a child")
            [] opCode.n = VNodeJournalOpCode_Remove ->
                 IF vnode_remove_ok(vn, a1, a2)
                 THEN Ok(vnode_remove(vn, a1, a2, TRUE), idx + 3)
                 ELSE Bad("remove: not a child")
            [] opCode.n = VNodeJournalOpCode_Move ->
                 IF ~vnode_remove_ok(vn, a1, a2) THEN Bad("remove: not a child")
                 ELSE LET vn1 == vnode_remove(vn, a1, a2, FALSE) IN
                      IF vnode_insertBefore_ok(vn1, a1, a2, a3)
                      THEN Ok(vnode_insertBefore(vn1, a1, a2, a3), idx + 4)
                      ELSE Bad("insertBefore: bad reference")
            [] opCode.n = VNodeJournalOpCode_Attributes ->
                 LET r == apply_attributes([vn |-> vn, idx |-> idx + 2], j, a1)
                 IN Ok(r.vn, r.idx)
            [] OTHER -> Bad("Unsupported opCode")

----------------------------------------------------------------------------
(* The state machine *)

vStartNode == 1

NoPending == [jsx |-> JNull, host |-> NoNode]

Init ==
  /\ vnodes = <<VNode("element", "root", "")>>
  /\ journal = <<>>
  /\ asyncQueue = <<>>
  /\ stack = <<>>
  /\ vParent = NoNode /\ vCurrent = NoNode /\ vNewNode = NoNode
  /\ vSiblings = NullSiblings /\ vSiblingsIdx = -1
  /\ jsxChildren = <<>> /\ jsxValue = JNull /\ jsxIdx = 0 /\ jsxCount = 0
  /\ pc = "idle"
  /\ err = ""
  /\ pending = NoPending
  /\ applyIdx = 0
  /\ round = 0
  /\ lastJsx = JNull
  /\ prevJsx = JNull
  /\ startNodes = <<>>
  /\ enqLog = <<>>
  /\ diffLog = <<>>
  /\ tick = FALSE

\* r is computed once and assigned to the closure's variables
SetClosure(c) ==
  \E r \in {c} :
    /\ vnodes' = r.vnodes
    /\ journal' = r.journal
    /\ asyncQueue' = r.asyncQueue
    /\ stack' = r.stack
    /\ vParent' = r.vParent /\ vCurrent' = r.vCurrent /\ vNewNode' = r.vNewNode
    /\ vSiblings' = r.vSiblings /\ vSiblingsIdx' = r.vSiblingsIdx
    /\ jsxChildren' = r.jsxChildren /\ jsxValue' = r.jsxValue
    /\ jsxIdx' = r.jsxIdx /\ jsxCount' = r.jsxCount
    /\ err' = r.err
    /\ enqLog' = r.enqLog
    /\ pc' = IF r.err # "" THEN "failed" ELSE "diff"

\* the traversal variables of a fresh vnode_diff call
FreshClosure ==
  [vnodes |-> vnodes, journal |-> journal, asyncQueue |-> <<>>, stack |-> <<>>,
   vParent |-> NoNode, vCurrent |-> NoNode, vNewNode |-> NoNode,
   vSiblings |-> NullSiblings, vSiblingsIdx |-> -1,
   jsxChildren |-> <<>>, jsxValue |-> JNull, jsxIdx |-> 0, jsxCount |-> 0,
   err |-> "", enqLog |-> <<>>]

\* vnode_diff(container, jsxNode, vStartNode) up to the first pass of the loop
StartDiff(jsxNode) ==
  /\ pc = "idle"
  /\ round < MaxRounds
  /\ SetClosure(diff_begin(FreshClosure, jsxNode, vStartNode))
  /\ lastJsx' = jsxNode
  /\ prevJsx' = lastJsx
  /\ startNodes' = vnodes
  /\ diffLog' = <<>>
  /\ UNCHANGED <<pending, applyIdx, round, tick>>

DiffStep ==
  /\ pc = "diff"
  /\ stack # <<>>
  /\ jsxIdx < jsxCount
  /\ SetClosure(diff_iter(Closure))
  /\ UNCHANGED <<pending, applyIdx, round, lastJsx, prevJsx, startNodes, diffLog>>
  /\ tick' = ~tick

FrameEnd ==
  /\ pc = "diff"
  /\ stack # <<>>
  /\ ~(jsxIdx < jsxCount)
  /\ SetClosure(diff_frameEnd(Closure))
  /\ UNCHANGED <<pending, applyIdx, round, lastJsx, prevJsx, startNodes, diffLog>>
  /\ tick' = ~tick

\* diff() returns: to drainAsyncQueue
DiffReturn ==
  /\ pc = "diff"
  /\ stack = <<>>
  /\ pc' = "drain"
  /\ UNCHANGED <<vnodes, journal, asyncQueue, stack, vParent, vCurrent, vNewNode,
                 vSiblings, vSiblingsIdx, jsxChildren, jsxValue, jsxIdx, jsxCount, err,
                 pending, applyIdx, round, lastJsx, prevJsx, startNodes, enqLog, diffLog>>
  /\ tick' = ~tick

DrainDone_early ==
  /\ pc = "drain"
  /\ pc' = "done"
  /\ UNCHANGED <<vnodes, journal, asyncQueue, stack, vParent, vCurrent, vNewNode,
                 vSiblings, vSiblingsIdx, jsxChildren, jsxValue, jsxIdx, jsxCount, err,
                 pending, applyIdx, round, lastJsx, prevJsx, startNodes, enqLog, diffLog>>
  /\ tick' = ~tick

\* drainAsyncQueue, the queue empty: the completion signal
DrainDone ==
  /\ pc = "drain"
  /\ asyncQueue = <<>>
  /\ pc' = "done"
  /\ UNCHANGED <<vnodes, journal, asyncQueue, stack, vParent, vCurrent, vNewNode,
                 vSiblings, vSiblingsIdx, jsxChildren, jsxValue, jsxIdx, jsxCount, err,
                 pending, applyIdx, round, lastJsx, prevJsx, startNodes, enqLog, diffLog>>
  /\ tick' = ~tick

\* the shifted pair is [jsx, host]
drain_first(q) == [jsx |-> q[1].jsx, host |-> q[2].host]
drain_rest(q) == SubSeq(q, 3, Len(q))
drain_last(q) == [jsx |-> q[Len(q) - 1].jsx, host |-> q[Len(q)].host]
drain_front(q) == SubSeq(q, 1, Len(q) - 2)

drain_take_lifo(q) == [pair |-> drain_last(q), rest |-> drain_front(q), promise |-> q[Len(q) - 1].promise]
drain_take(q) == [pair |-> drain_first(q), rest |-> drain_rest(q), promise |-> q[1].promise]

\* drainAsyncQueue, the shifted jsx not a promise: diff(jsxNode, vHostNode)
DrainSync ==
  /\ pc = "drain"
  /\ asyncQueue # <<>>
  /\ LET d == drain_take(asyncQueue) IN
     /\ ~d.promise
     /\ SetClosure(diff_begin([Closure EXCEPT !.asyncQueue = d.rest], d.pair.jsx, d.pair.host))
     /\ diffLog' = Append(diffLog, <<d.pair.jsx, d.pair.host>>)
  /\ UNCHANGED <<pending, applyIdx, round, lastJsx, prevJsx, startNodes>>
  /\ tick' = ~tick

\* drainAsyncQueue, the shifted jsx a promise: return jsxNode.then(...)
DrainAsync ==
  /\ pc = "drain"
  /\ asyncQueue # <<>>
  /\ LET d == drain_take(asyncQueue) IN
     /\ d.promise
     /\ asyncQueue' = d.rest
     /\ pending' = d.pair
  /\ pc' = "await"
  /\ UNCHANGED <<vnodes, journal, stack, vParent, vCurrent, vNewNode,
                 vSiblings, vSiblingsIdx, jsxChildren, jsxValue, jsxIdx, jsxCount, err,
                 applyIdx, round, lastJsx, prevJsx, startNodes, enqLog, diffLog>>
  /\ tick' = ~tick

\* the promise resolves: the then-callback runs diff(jsxNode, vHostNode)
Resolve ==
  /\ pc = "await"
  /\ SetClosure(diff_begin(Closure, pending.jsx, pending.host))
  /\ diffLog' = Append(diffLog, <<pending.jsx, pending.host>>)
  /\ pending' = NoPending
  /\ UNCHANGED <<applyIdx, round, lastJsx, prevJsx, startNodes, tick>>

Reject_skipPair ==
  /\ pc = "await"
  /\ pc' = "drain"
  /\ pending' = NoPending
  /\ UNCHANGED <<vnodes, journal, asyncQueue, stack, vParent, vCurrent, vNewNode,
                 vSiblings, vSiblingsIdx, jsxChildren, jsxValue, jsxIdx, jsxCount, err,
                 applyIdx, round, lastJsx, prevJsx, startNodes, enqLog, diffLog, tick>>

\* the promise rejects: the returned promise rejects, the callback never runs
Reject ==
  /\ pc = "await"
  /\ pc' = "failed"
  /\ err' = "rejected"
  /\ UNCHANGED <<vnodes, journal, asyncQueue, stack, vParent, vCurrent, vNewNode,
                 vSiblings, vSiblingsIdx, jsxChildren, jsxValue, jsxIdx, jsxCount,
                 pending, applyIdx, round, lastJsx, prevJsx, startNodes, enqLog, diffLog, tick>>

\* the caller hands the journal to vnode_applyJournal
ApplyBegin ==
  /\ pc = "done"
  /\ pc' = "apply"
  /\ applyIdx' = 0
  /\ UNCHANGED <<vnodes, journal, asyncQueue, stack, vParent, vCurrent, vNewNode,
                 vSiblings, vSiblingsIdx, jsxChildren, jsxValue, jsxIdx, jsxCount, err,
                 pending, round, lastJsx, prevJsx, startNodes, enqLog, diffLog, tick>>

ApplyStep ==
  /\ pc = "apply"
  /\ applyIdx < Len(journal)
  /\ LET r == apply_iter(vnodes, journal, applyIdx) IN
     /\ vnodes' = r.vn
     /\ applyIdx' = r.idx
     /\ err' = r.err
     /\ pc' = IF r.err # "" THEN "failed" ELSE "apply"
  /\ UNCHANGED <<journal, asyncQueue, stack, vParent, vCurrent, vNewNode,
                 vSiblings, vSiblingsIdx, jsxChildren, jsxValue, jsxIdx, jsxCount,
                 pending, round, lastJsx, prevJsx, startNodes, enqLog, diffLog, tick>>

\* journal.length = 0
ApplyEnd ==
  /\ pc = "apply"
  /\ ~(applyIdx < Len(journal))
  /\ journal' = <<>>
  /\ pc' = "idle"
  /\ round' = round + 1
  /\ UNCHANGED <<vnodes, asyncQueue, stack, vParent, vCurrent, vNewNode,
                 vSiblings, vSiblingsIdx, jsxChildren, jsxValue, jsxIdx, jsxCount, err,
                 pending, applyIdx, lastJsx, prevJsx, startNodes, enqLog, diffLog, tick>>

\* the caller hands the journal to vnode_applyJournal once more, with no
\* vnode_diff in between
ApplyAgain ==
  /\ pc = "idle"
  /\ round >= 1
  /\ round < MaxRounds
  /\ pc' = "apply"
  /\ applyIdx' = 0
  /\ UNCHANGED <<vnodes, journal, asyncQueue, stack, vParent, vCurrent, vNewNode,
                 vSiblings, vSiblingsIdx, jsxChildren, jsxValue, jsxIdx, jsxCount, err,
                 pending, round, lastJsx, prevJsx, startNodes, enqLog, diffLog, tick>>

----------------------------------------------------------------------------
(* Descriptor universes and specifications *)

El(tag, c) == JEl(tag, Null, <<>>, "arr", c)
Leaf(tag) == JEl(tag, Null, <<>>, "undef", <<>>)

\* text, numbers, elements, fragments and arrays under one root element
GenChildren ==
  { <<>>,
    <<JText("a")>>,
    <<JText("a"), JText("b")>>,
    <<JText("b")>>,
    <<JText("a"), JText("b"), JNum(1)>>,
    <<JNum(1)>>,
    <<Leaf("b")>>,
    <<JText("a"), Leaf("b")>>,
    <<Leaf("b"), JText("a")>>,
    <<Leaf("i")>>,
    <<JArr(<<>>), Leaf("b")>>,
    <<JText("a"), JArr(<<>>)>>,
    <<JArr(<<JText("a"), JArr(<<JText("b")>>)>>)>>,
    <<JArr(<<JText("a")>>), JText("b")>>,
    <<JFrag("arr", <<JText("a")>>)>>,
    <<JFrag("arr", <<JText("a")>>), Leaf("b")>>,
    <<Leaf("b"), JFrag("undef", <<>>)>> }

GenDescs ==
  {El("div", c) : c \in GenChildren}
    \cup {Leaf("div"), JEl("div", Null, <<>>, "one", <<JText("a")>>)}

NextSync ==
  \/ \E d \in GenDescs : StartDiff(d)
  \/ DiffStep
  \/ FrameEnd
  \/ DiffReturn
  \/ DrainDone
  \/ ApplyBegin
  \/ ApplyStep
  \/ ApplyEnd

Spec == Init /\ [][NextSync]_vars

\* keyed <li> children under one <ul>: every order of three keys and every
\* order of four
Keyed(k) == JEl("li", Str(k), <<>>, "undef", <<>>)
KeyOrders ==
  { <<"A", "B", "C">>, <<"A", "C", "B">>, <<"B", "A", "C">>,
    <<"B", "C", "A">>, <<"C", "A", "B">>, <<"C", "B", "A">>,
    <<"A", "B", "C", "D">>, <<"A", "B", "D", "C">>, <<"A", "C", "B", "D">>,
    <<"A", "C", "D", "B">>, <<"A", "D", "B", "C">>, <<"A", "D", "C", "B">>,
    <<"B", "A", "C", "D">>, <<"B", "A", "D", "C">>, <<"B", "C", "A", "D">>,
    <<"B", "C", "D", "A">>, <<"B", "D", "A", "C">>, <<"B", "D", "C", "A">>,
    <<"C", "A", "B", "D">>, <<"C", "A", "D", "B">>, <<"C", "B", "A", "D">>,
    <<"C", "B", "D", "A">>, <<"C", "D", "A", "B">>, <<"C", "D", "B", "A">>,
    <<"D", "A", "B", "C">>, <<"D", "A", "C", "B">>, <<"D", "B", "A", "C">>,
    <<"D", "B", "C", "A">>, <<"D", "C", "A", "B">>, <<"D", "C", "B", "A">> }
KeyedList(o) == El("ul", [i \in 1..Len(o) |-> Keyed(o[i])])
KeyedDescs == {KeyedList(o) : o \in KeyOrders}

NextKeyed ==
  \/ \E d \in KeyedDescs : StartDiff(d)
  \/ DiffStep
  \/ FrameEnd
  \/ DiffReturn
  \/ DrainDone
  \/ ApplyBegin
  \/ ApplyStep
  \/ ApplyEnd

SpecKeyed == Init /\ [][NextKeyed]_vars

\* one <div> whose props and key vary; the props are written in an order
\* that is not the sorted one
AttrChoices(key, values) == {<<>>} \cup {<<<<key, v>>>> : v \in values}
AttrDescs ==
  { JEl("div", k, b \o oc \o a, "undef", <<>>) :
      k \in {Null, Str("K")},
      b \in AttrChoices("b", {Num(1)}),
      oc \in AttrChoices("on:click", {Str("h")}),
      a \in AttrChoices("a", {Num(1), Num(2)}) }
AttrsBefore == JEl("div", Null, <<<<"c", Num(3)>>, <<"a", Num(1)>>, <<"b", Num(2)>>>>, "undef", <<>>)
AttrsAfter == JEl("div", Null, <<<<"d", Num(4)>>, <<"a", Num(1)>>, <<"c", Num(9)>>>>, "undef", <<>>)

NextAttrs ==
  \/ \E d \in AttrDescs \cup {AttrsBefore, AttrsAfter} : StartDiff(d)
  \/ DiffStep
  \/ FrameEnd
  \/ DiffReturn
  \/ DrainDone
  \/ ApplyBegin
  \/ ApplyStep
  \/ ApplyEnd

SpecAttrs == Init /\ [][NextAttrs]_vars

\* components under one <div>: the same component with the same, equal and
\* different props, other components, several components in a row, components
\* that render components, and an element or a fragment where a host is wanted
CompChildren ==
  { <<JComp("S1", 1)>>, <<JComp("S1", 2)>>, <<JComp("S1", 3)>>, <<JComp("S1", 4)>>,
    <<JComp("S1", 5)>>, <<JComp("S2", 1)>>, <<JComp("P1", 1)>>,
    <<JComp("P1", 1), JComp("S1", 1)>>,
    <<JComp("SN", 1), JComp("S2", 3)>>,
    <<JComp("PN", 1), JComp("P1", 3), JComp("S2", 1)>>,
    <<JText("t"), JComp("S1", 1)>>,
    <<Leaf("b")>>,
    <<JFrag("arr", <<JText("f")>>)>> }
CompDescs == {El("div", c) : c \in CompChildren}

Engine ==
  \/ DiffStep
  \/ FrameEnd
  \/ DiffReturn
  \/ DrainSync
  \/ DrainAsync
  \/ DrainDone

NextComp ==
  \/ \E d \in CompDescs : StartDiff(d)
  \/ Engine
  \/ Resolve
  \/ Reject
  \/ ApplyBegin
  \/ ApplyStep
  \/ ApplyEnd

SpecComp == Init /\ [][NextComp]_vars

\* every asynchronous expansion resolves: no promise rejects, and a pending
\* one is resolved in the end; the engine's synchronous steps run to completion
NextResolving ==
  \/ \E d \in CompDescs : StartDiff(d)
  \/ Engine
  \/ Resolve
  \/ ApplyBegin
  \/ ApplyStep
  \/ ApplyEnd

\* a step of the running engine: in diff or in drainAsyncQueue the engine is
\* the only part of the program that can run, and each of its steps flips tick
EngineRuns == pc \in {"diff", "drain"} /\ tick' = ~tick

SpecResolving ==
  Init /\ [][NextResolving]_vars /\ WF_tick(EngineRuns) /\ WF_vars(Resolve)

\* descriptors whose journals hold every opcode the engine appends
ApplyDescs ==
  GenDescs
    \cup {KeyedList(o) : o \in {<<"A", "B", "C">>, <<"C", "A", "B">>, <<"C", "B", "A">>,
                               <<"B", "A", "C">>}}
    \cup {AttrsBefore, AttrsAfter}

NextApply ==
  \/ \E d \in ApplyDescs : StartDiff(d)
  \/ DiffStep
  \/ FrameEnd
  \/ DiffReturn
  \/ DrainDone
  \/ ApplyBegin
  \/ ApplyStep
  \/ ApplyEnd
  \/ ApplyAgain

SpecApply == Init /\ [][NextApply]_vars

\* descriptors the engine does not support, each after a sibling that appended
\* to the journal or enqueued an expansion, and before a sibling
ErrChildren ==
  { <<JText("a"), JSlot, JText("b")>>,
    <<JComp("S1", 1), JSlot, JText("b")>>,
    <<JComp("P1", 1), JBadType, Leaf("b")>>,
    <<JComp("S2", 1), El("p", <<JText("a"), JObject, JText("b")>>), JText("c")>>,
    <<JArr(<<JText("a"), JBadType>>), JText("b")>>,
    <<JFrag("arr", <<JObject>>), JComp("S1", 1)>>,
    <<JText("a"), JNull>>,
    <<JComp("P1", 1), JText("a")>>,
    <<JComp("S1", 1), JText("a"), JText("b")>>,
    <<JText("a")>> }
ErrDescs == {El("div", c) : c \in ErrChildren}

NextErr ==
  \/ \E d \in ErrDescs : StartDiff(d)
  \/ Engine
  \/ Resolve
  \/ ApplyBegin
  \/ ApplyStep
  \/ ApplyEnd

SpecErr == Init /\ [][NextErr]_vars

\* text, keyed and unkeyed elements of several tags, fragments and components
\* side by side under one <div>
KeyedTag(tag, k) == JEl(tag, Str(k), <<>>, "undef", <<>>)
MixChildren ==
  { <<>>,
    <<JText("a")>>,
    <<Leaf("b")>>,
    <<JText("a"), Leaf("b")>>,
    <<Leaf("b"), JText("a")>>,
    <<JText("a"), JText("b"), Leaf("b")>>,
    <<Leaf("i")>>,
    <<Leaf("b"), Leaf("i")>>,
    <<Leaf("i"), Leaf("b")>>,
    <<Keyed("A"), Keyed("B")>>,
    <<Keyed("B"), Keyed("A")>>,
    <<Keyed("C"), Keyed("A")>>,
    <<Keyed("A"), Leaf("b"), Keyed("B")>>,
    <<Keyed("B"), JText("a"), Keyed("A")>>,
    <<KeyedTag("p", "A"), Keyed("B")>>,
    <<JFrag("arr", <<JText("a")>>), Leaf("b")>>,
    <<Leaf("b"), JFrag("undef", <<>>)>>,
    <<JComp("S1", 1)>>,
    <<Leaf("b"), JComp("S1", 1)>>,
    <<JText("a"), JComp("S2", 1), JText("b")>>,
    <<JComp("P1", 1), Leaf("b")>> }
MixDescs == {El("div", c) : c \in MixChildren}

NextMix ==
  \/ \E d \in MixDescs : StartDiff(d)
  \/ Engine
  \/ Resolve
  \/ ApplyBegin
  \/ ApplyStep
  \/ ApplyEnd

SpecMix == Init /\ [][NextMix]_vars

\* one <div> with a handler prop, a prop whose value is a number or a string,
\* and a text or keyed children, so that Attributes blocks hold handler keys,
\* string values and removals (null), and are followed by other entries
BlockChildren ==
  { <<>>, <<JText("t")>>,
    <<Keyed("A"), Keyed("B")>>, <<Keyed("B"), Keyed("A")>> }
BlockDescs ==
  { JEl("div", Null, oc \o a, "arr", ch) :
      oc \in AttrChoices("onClick$", {Str("h")}),
      a \in AttrChoices("a", {Num(1), Str("x")}),
      ch \in BlockChildren }

NextBlock ==
  \/ \E d \in BlockDescs : StartDiff(d)
  \/ DiffStep
  \/ FrameEnd
  \/ DiffReturn
  \/ DrainDone
  \/ ApplyBegin
  \/ ApplyStep
  \/ ApplyEnd

SpecBlock == Init /\ [][NextBlock]_vars

----------------------------------------------------------------------------
(* Rendered shape of the tree, and the shape a descriptor stands for *)

ShapeOf(kind, tag, text, attrs, kids) ==
  [kind |-> kind, tag |-> tag, text |-> text, attrs |-> attrs, kids |-> kids]

RECURSIVE Shape(_, _)
Shape(vn, v) ==
  ShapeOf(vn[v].kind, vn[v].tag, vn[v].text, vn[v].attrs,
          [i \in 1..Len(vn[v].kids) |-> Shape(vn, vn[v].kids[i])])

RECURSIVE Interp(_)
RECURSIVE InterpAll(_)
\* the sibling shapes a list of descriptors stands for, arrays flattened
InterpAll(ds) == IF ds = <<>> THEN <<>> ELSE Interp(Head(ds)) \o InterpAll(Tail(ds))
Interp(d) ==
  CASE d.t = "string" -> <<ShapeOf("text", "", d.s, <<>>, <<>>)>>
    [] d.t = "number" -> <<ShapeOf("text", "", NumToString(d.n), <<>>, <<>>)>>
    [] d.t = "boolean" -> <<ShapeOf("text", "", "", <<>>, <<>>)>>
    [] d.t = "array" -> InterpAll(d.c)
    [] d.t = "element" -> <<ShapeOf("element", d.tag, "", jsxAttrsOf(d), InterpAll(d.c))>>
    [] d.t = "fragment" -> <<ShapeOf("virtual", "", "", <<>>, InterpAll(d.c))>>
    [] d.t = "component" ->
         <<ShapeOf("virtual", "", "",
                   <<Str(ELEMENT_PROPS), Obj(d.n), Str(OnRenderProp), Str(d.s)>>,
                   Interp(ComponentBody(d.s, Obj(d.n)).jsx))>>
    [] OTHER -> <<>>

RenderedChildren == Shape(vnodes, vStartNode).kids

----------------------------------------------------------------------------
(* Claims *)

\* C1: after every diff-then-apply round the rendered shape of the tree is the
\* direct structural interpretation of the descriptor of that round, whatever
\* the descriptors of the rounds before were.
C1_RoundTrip ==
  (pc = "idle" /\ round >= 1) => RenderedChildren = Interp(lastJsx)

\* C2: diffing a descriptor against the tree that diff-then-apply of the same
\* descriptor produced appends nothing to the journal.
C2_Idempotent ==
  (pc \in {"diff", "drain", "done"} /\ round >= 1 /\ lastJsx = prevJsx) => journal = <<>>

RECURSIVE HasEmptyArray(_)
HasEmptyArray(d) ==
  \/ (d.t = "array" /\ d.c = <<>>)
  \/ \E i \in 1..Len(d.c) : HasEmptyArray(d.c[i])

\* C2 holds of every descriptor that contains no empty array
C2_IdempotentNoEmptyArray ==
  (pc \in {"diff", "drain", "done"} /\ round >= 1 /\ lastJsx = prevJsx
     /\ ~HasEmptyArray(lastJsx)) => journal = <<>>

\* the child list with every array replaced by its items, to any depth
RECURSIVE FlattenJsx(_)
RECURSIVE FlattenList(_)
FlattenList(ds) ==
  IF ds = <<>> THEN <<>>
  ELSE IF Head(ds).t = "array" THEN FlattenList(Head(ds).c) \o FlattenList(Tail(ds))
  ELSE <<FlattenJsx(Head(ds))>> \o FlattenList(Tail(ds))
FlattenJsx(d) == [d EXCEPT !.c = FlattenList(d.c)]

\* diff() run to its return
RECURSIVE RunDiff(_)
RunDiff(s) ==
  IF s.err # "" \/ s.stack = <<>> THEN s
  ELSE IF s.jsxIdx < s.jsxCount THEN RunDiff(diff_iter(s))
  ELSE RunDiff(diff_frameEnd(s))

DiffJournal(vn, d) ==
  RunDiff(diff_begin([FreshClosure EXCEPT !.vnodes = vn, !.journal = <<>>],
                     d, vStartNode)).journal

\* C8: a child list with arrays nested to any depth (empty ones included)
\* yields the journal that the flattened child list yields on the same tree.
C8_ArrayFlattening ==
  pc = "drain" => journal = DiffJournal(startNodes, FlattenJsx(lastJsx))

\* C8 holds of every descriptor that contains no empty array
C8_FlatteningNoEmptyArray ==
  (pc = "drain" /\ ~HasEmptyArray(lastJsx))
    => journal = DiffJournal(startNodes, FlattenJsx(lastJsx))

\* the step in which a frame's descriptors are exhausted: expectNoMore, ascend
FrameEndStep == pc = "diff" /\ stack # <<>> /\ ~(jsxIdx < jsxCount) /\ pc' = "diff"

C9_Step ==
  FrameEndStep =>
    IF vCurrent # NoNode
    THEN journal' = journal \o <<Num(VNodeJournalOpCode_Truncate), VNodeRef(vParent),
                                 VNodeRef(vCurrent)>>
    ELSE journal' = journal

ThreeChildren == El("div", <<JText("a"), JText("b"), JNum(1)>>)
NoChildren == {Leaf("div"), El("div", <<>>)}
TheDiv == Head(vnodes[vStartNode].kids)

C9_Example ==
  (pc = "drain" /\ prevJsx = ThreeChildren /\ lastJsx \in NoChildren)
    => journal = <<Num(VNodeJournalOpCode_Truncate), VNodeRef(TheDiv),
                   VNodeRef(Head(vnodes[TheDiv].kids))>>

\* C9: when a frame's descriptors are exhausted with the cursor on a node, one
\* Truncate (parent, cursor) and nothing else is appended; with the cursor null
\* nothing is appended. Zero descriptors against a 3-child parent give a
\* journal of exactly one Truncate naming the first child.
C9_Truncation == [][C9_Step]_vars /\ [](C9_Example)

C9_Witness ==
  /\ pc = "drain" /\ prevJsx = ThreeChildren /\ lastJsx \in NoChildren
  /\ Len(vnodes[TheDiv].kids) = 3
  /\ Len(journal) = 3

\* the step that processes a text or number descriptor
TextStep == pc = "diff" /\ stack # <<>> /\ jsxIdx < jsxCount
            /\ jsxValue.t \in {"string", "number"} /\ pc' = "diff"
TextOf(v) == IF v.t = "number" THEN NumToString(v.n) ELSE v.s

C10_Step ==
  TextStep =>
    LET text == TextOf(jsxValue) IN
    IF vCurrent # NoNode /\ vnodes[vCurrent].kind = "text"
    THEN IF vnodes[vCurrent].text = text
         THEN journal' = journal
         ELSE journal' = journal \o <<Num(VNodeJournalOpCode_TextSet), VNodeRef(vCurrent),
                                      Str(text)>>
    ELSE /\ journal' = journal \o <<Num(VNodeJournalOpCode_Insert), VNodeRef(vParent),
                                    VNodeRef(Len(vnodes) + 1), VNodeRef(vCurrent)>>
         /\ Len(vnodes') = Len(vnodes) + 1
         /\ vnodes'[Len(vnodes) + 1].kind = "text"
         /\ vnodes'[Len(vnodes) + 1].text = text
         /\ vnodes'[Len(vnodes) + 1].parent = NoNode

TextAB == El("div", <<JText("a"), JText("b")>>)
TextA == El("div", <<JText("a")>>)

C10_Example ==
  /\ (pc = "drain" /\ round = 1 /\ prevJsx = TextAB /\ lastJsx = TextAB) => journal = <<>>
  /\ (pc = "drain" /\ round = 1 /\ prevJsx = TextA /\ lastJsx = TextAB)
       => /\ journal = <<Num(VNodeJournalOpCode_Insert), VNodeRef(TheDiv),
                         VNodeRef(Len(vnodes)), Null>>
          /\ vnodes[Len(vnodes)].text = "b"

\* C10: a text or number descriptor appends nothing when the cursor is a text
\* node with that text, one TextSet for the cursor when it is a text node with
\* another text, and otherwise one Insert of a new text node before the cursor.
C10_Text == [][C10_Step]_vars /\ [](C10_Example)

C10_Witness ==
  /\ pc = "drain" /\ round = 1 /\ prevJsx = TextA /\ lastJsx = TextAB
  /\ Len(journal) = 4

\* the journal as entries [op, args]: an opcode and its operands
RECURSIVE AttrRunEnd(_, _)
AttrRunEnd(j, idx) ==
  IF idx < Len(j) /\ j[idx + 1].t = "string" THEN AttrRunEnd(j, idx + 2) ELSE idx

RECURSIVE Entries(_, _)
Entries(j, idx) ==
  IF idx >= Len(j) THEN <<>>
  ELSE LET op == j[idx + 1].n
           next == CASE op \in {VNodeJournalOpCode_Insert, VNodeJournalOpCode_Move} -> idx + 4
                     [] op = VNodeJournalOpCode_Attributes -> AttrRunEnd(j, idx + 2)
                     [] OTHER -> idx + 3
       IN <<[op |-> op, args |-> SubSeq(j, idx + 2, next)]>> \o Entries(j, next)
JournalEntries == Entries(journal, 0)
CountOp(op) == Cardinality({i \in 1..Len(JournalEntries) : JournalEntries[i].op = op})

KeysOf(d) == {d.c[i].key : i \in 1..Len(d.c)}
\* the previous round rendered prevJsx, and lastJsx reorders its keyed children
IsReorder ==
  /\ round >= 1
  /\ prevJsx \in KeyedDescs /\ lastJsx \in KeyedDescs
  /\ KeysOf(prevJsx) = KeysOf(lastJsx)
TheUl == Head(vnodes[vStartNode].kids)
NodeWithKey(vn, k) ==
  CHOOSE n \in 1..Len(vn) : vn[n].kind = "element" /\ mapArray_get(vn[n].attrs, ELEMENT_KEY) = k

\* C3: diffing a permutation of the keys of same-tag keyed children appends
\* only Move entries for that parent; after the apply every key is carried by
\* the node that carried it before, in the new order; the rotation
\* [A,B,C] -> [C,A,B] is exactly one Move, of C in front of A.
C3_KeyedReorder ==
  /\ (IsReorder /\ pc = "drain")
       => \A i \in 1..Len(JournalEntries) :
            /\ JournalEntries[i].op = VNodeJournalOpCode_Move
            /\ JournalEntries[i].args[1] = VNodeRef(TheUl)
  /\ (IsReorder /\ pc = "idle" /\ round >= 2)
       => /\ Len(vnodes) = Len(startNodes)
          /\ Len(vnodes[TheUl].kids) = Len(lastJsx.c)
          /\ \A i \in 1..Len(lastJsx.c) :
               vnodes[TheUl].kids[i] = NodeWithKey(startNodes, lastJsx.c[i].key)
  /\ (IsReorder /\ pc = "drain" /\ prevJsx = KeyedList(<<"A", "B", "C">>)
        /\ lastJsx = KeyedList(<<"C", "A", "B">>))
       => journal = <<Num(VNodeJournalOpCode_Move), VNodeRef(TheUl),
                      VNodeRef(NodeWithKey(vnodes, Str("C"))),
                      VNodeRef(NodeWithKey(vnodes, Str("A")))>>

C3_Witness ==
  /\ IsReorder /\ pc = "idle" /\ round >= 2
  /\ prevJsx = KeyedList(<<"A", "B", "C", "D">>)
  /\ lastJsx = KeyedList(<<"B", "D", "A", "C">>)
  /\ vnodes[TheUl].kids = <<NodeWithKey(startNodes, Str("B")), NodeWithKey(startNodes, Str("D")),
                            NodeWithKey(startNodes, Str("A")), NodeWithKey(startNodes, Str("C"))>>

\* the step that processes an element descriptor
ElementStep == pc = "diff" /\ stack # <<>> /\ jsxIdx < jsxCount
               /\ jsxValue.t = "element" /\ pc' = "diff"

AttrKeys(a) == {a[2 * i + 1].s : i \in 0..(Len(a) \div 2 - 1)}

\* the key/value pairs the merge of the new list src into the existing list
\* dst is to record, in key order; skipOn says whether an existing 'on:' key
\* that sorts after every new key is left out
RECURSIVE MergePairs(_, _, _, _)
MergePairs(ks, src, dst, skipOn) ==
  IF ks = <<>> THEN <<>>
  ELSE LET k == Head(ks)
           here ==
             IF k \notin AttrKeys(dst) THEN <<Str(k), mapArray_get(src, k)>>
             ELSE IF k \notin AttrKeys(src)
             THEN IF skipOn /\ StartsWithOnColon(Str(k))
                     /\ \A k2 \in AttrKeys(src) : Rank(k2) < Rank(k)
                  THEN <<>>
                  ELSE <<Str(k), Null>>
             ELSE IF mapArray_get(src, k) # mapArray_get(dst, k)
             THEN <<Str(k), mapArray_get(src, k)>>
             ELSE <<>>
       IN here \o MergePairs(Tail(ks), src, dst, skipOn)

ExpectedPairs(src, dst, skipOn) ==
  MergePairs(SortKeys(AttrKeys(src) \cup AttrKeys(dst)), src, dst, skipOn)

\* what an element step appends for attributes is one Attributes block of the
\* reconciled vnode holding the expected pairs, or nothing when there is none
AttrStep(skipOn) ==
  ElementStep =>
    LET target == vParent'
        dst == IF target <= Len(vnodes) THEN vnodes[target].attrs ELSE <<>>
        pairs == ExpectedPairs(jsxAttrsOf(jsxValue), dst, skipOn)
        added == Entries(SubSeq(journal', Len(journal) + 1, Len(journal')), 0)
        blocks == {i \in 1..Len(added) : added[i].op = VNodeJournalOpCode_Attributes}
    IN IF pairs = <<>> THEN blocks = {}
       ELSE /\ blocks = {Len(added)}
            /\ added[Len(added)].args = <<VNodeRef(target)>> \o pairs

C4_Example ==
  (pc = "drain" /\ round = 1 /\ prevJsx = AttrsBefore /\ lastJsx = AttrsAfter)
    => journal = <<Num(VNodeJournalOpCode_Attributes), VNodeRef(Head(vnodes[vStartNode].kids)),
                   Str("b"), Null, Str("c"), Num(9), Str("d"), Num(4)>>

\* C4 as stated: every key that is only in the existing list is recorded with
\* null
C4_AttributeMergeOriginal == [][AttrStep(FALSE)]_vars

\* C4, amended: one Attributes block with (k, v) for a key only in the new
\* list, (k, null) for a key only in the existing list unless it starts with
\* 'on:' and sorts after every new key, (k, new value) for a key in both with
\* differing values; no Attributes entry when nothing is recorded.
C4_AttributeMerge == [][AttrStep(TRUE)]_vars /\ [](C4_Example)

C4_Witness ==
  /\ pc = "drain" /\ round = 1 /\ prevJsx = AttrsBefore /\ lastJsx = AttrsAfter
  /\ Len(journal) = 8

\* the (jsx, host) pairs still on asyncQueue, in order
RECURSIVE QueuePairs(_)
QueuePairs(q) ==
  IF q = <<>> THEN <<>> ELSE <<<<q[1].jsx, q[2].host>>>> \o QueuePairs(SubSeq(q, 3, Len(q)))
Taken == Len(diffLog) + (IF pc = "await" THEN 1 ELSE 0)

\* C5: the pairs handed to diff() are, in order, the pairs enqueued: the k-th
\* pair diffed is the k-th pair enqueued, with its host; while a promise is
\* pending it is the next pair in enqueue order and nothing later is diffed;
\* the queue holds the pairs enqueued after it, in enqueue order.
C5_FifoDrain ==
  /\ Len(diffLog) <= Len(enqLog)
  /\ \A i \in 1..Len(diffLog) : diffLog[i] = enqLog[i]
  /\ pc = "await" => /\ Len(diffLog) < Len(enqLog)
                     /\ <<pending.jsx, pending.host>> = enqLog[Len(diffLog) + 1]
  /\ pc \in {"diff", "drain", "await", "done"} =>
       /\ Taken <= Len(enqLog)
       /\ QueuePairs(asyncQueue) = SubSeq(enqLog, Taken + 1, Len(enqLog))

C5_Witness ==
  /\ pc = "done"
  /\ lastJsx = El("div", <<JComp("PN", 1), JComp("P1", 3), JComp("S2", 1)>>)
  /\ Len(diffLog) = 4

C6_Safety ==
  pc = "done" => /\ asyncQueue = <<>>
                 /\ pending = NoPending
                 /\ diffLog = enqLog
                 /\ stack = <<>>

\* C6: the completion signal is reached only with the queue empty and every
\* enqueued pair diffed; when every asynchronous expansion resolves, a running
\* vnode_diff reaches it.
C6_Completion == [](C6_Safety) /\ ((pc \in {"diff", "drain", "await"}) ~> (pc = "done"))

C6_Witness ==
  /\ pc = "done"
  /\ lastJsx = El("div", <<JComp("SN", 1), JComp("S2", 3)>>)
  /\ Len(enqLog) = 3

\* the step that processes a component descriptor
ComponentStep == pc = "diff" /\ stack # <<>> /\ jsxIdx < jsxCount
                 /\ jsxValue.t = "component" /\ pc' = "diff"

RECURSIVE SkipText(_, _)
SkipText(vn, v) ==
  IF v # NoNode /\ vn[v].kind = "text" THEN SkipText(vn, vnode_getNextSibling(vn, v)) ELSE v

\* the host the engine uses for the component at the cursor, and what it stores
HostAtCursor ==
  LET c == SkipText(vnodes, vCurrent) IN IF c # NoNode THEN c ELSE Len(vnodes) + 1
StoredOn(host, key) == IF host <= Len(vnodes) THEN vnode_getProp(vnodes, host, key) ELSE Null
PairsOf(o) == {PropsOf(o)[i] : i \in 1..Len(PropsOf(o))}
SameRender(host, jsx) ==
  /\ StoredOn(host, OnRenderProp) = Str(jsx.s)
  /\ StoredOn(host, ELEMENT_PROPS).t = "object"
  /\ PairsOf(StoredOn(host, ELEMENT_PROPS)) = PairsOf(Obj(jsx.n))

C7_Step ==
  ComponentStep =>
    LET host == HostAtCursor
        body == ComponentBody(jsxValue.s, Obj(jsxValue.n))
    IN IF SameRender(host, jsxValue)
       THEN asyncQueue' = asyncQueue /\ enqLog' = enqLog
       ELSE /\ asyncQueue' = asyncQueue \o <<QJsx(body.promise, body.jsx), QHost(host)>>
            /\ enqLog' = Append(enqLog, <<body.jsx, host>>)

\* C7: a component whose host stores the same render source and props with
\* the same keys and values enqueues nothing; any difference enqueues exactly
\* one (descriptor, host) pair.
C7_RenderGating == [][C7_Step]_vars

\* the same component with an equal but distinct props object: nothing is
\* enqueued in the second round
C7_Witness ==
  /\ pc = "done" /\ round = 1
  /\ prevJsx = El("div", <<JComp("S1", 1)>>)
  /\ lastJsx = El("div", <<JComp("S1", 2)>>)
  /\ enqLog = <<>>
  /\ vnode_getProp(vnodes, vnodes[TheDiv].kids[1], ELEMENT_PROPS) = Obj(1)

\* the indices at which the entries of a journal start
RECURSIVE EntryStarts(_, _)
EntryStarts(j, idx) ==
  IF idx >= Len(j) THEN {}
  ELSE LET op == j[idx + 1].n
           next == CASE op \in {VNodeJournalOpCode_Insert, VNodeJournalOpCode_Move} -> idx + 4
                     [] op = VNodeJournalOpCode_Attributes -> AttrRunEnd(j, idx + 2)
                     [] OTHER -> idx + 3
       IN {idx} \cup EntryStarts(j, next)
NextStart(j, idx) ==
  IF \E n \in EntryStarts(j, 0) : n > idx
  THEN CHOOSE n \in EntryStarts(j, 0) : n > idx /\ \A m \in EntryStarts(j, 0) : m > idx => n <= m
  ELSE Len(j)

Without(ks, n) == SelectSeq(ks, LAMBDA x : x # n)
PlacedBefore(ks, n, ref) ==
  /\ IndexOf(ks, n) # 0
  /\ IF ref = NoNode THEN ks[Len(ks)] = n
     ELSE IndexOf(ks, n) < Len(ks) /\ ks[IndexOf(ks, n) + 1] = ref

\* what the tree must look like after the entry e has been applied to vn
EntryEffect(e, vn, vn2) ==
  LET a1 == RefNode(e.args[1])
      a2 == RefNode(e.args[2])
  IN CASE e.op = VNodeJournalOpCode_TextSet -> vn2[a1].text = e.args[2].s
       [] e.op = VNodeJournalOpCode_Insert ->
            /\ Without(vn2[a1].kids, a2) = vn[a1].kids
            /\ PlacedBefore(vn2[a1].kids, a2, RefNode(e.args[3]))
       [] e.op = VNodeJournalOpCode_Move ->
            /\ Without(vn2[a1].kids, a2) = Without(vn[a1].kids, a2)
            /\ PlacedBefore(vn2[a1].kids, a2, RefNode(e.args[3]))
       [] e.op = VNodeJournalOpCode_Remove -> vn2[a1].kids = Without(vn[a1].kids, a2)
       [] e.op = VNodeJournalOpCode_Truncate ->
            vn2[a1].kids = SubSeq(vn[a1].kids, 1, IndexOf(vn[a1].kids, a2) - 1)
       [] e.op = VNodeJournalOpCode_Attributes ->
            \A i \in 1..((Len(e.args) - 1) \div 2) :
              mapArray_get(vn2[a1].attrs, e.args[2 * i].s) = e.args[2 * i + 1]
       [] OTHER -> FALSE

C11_Step ==
  /\ (pc = "apply" /\ pc' = "apply") =>
       /\ applyIdx \in EntryStarts(journal, 0)
       /\ applyIdx' = NextStart(journal, applyIdx)
       /\ journal' = journal
       /\ EntryEffect(Head(Entries(journal, applyIdx)), vnodes, vnodes')
  /\ (pc = "apply" /\ pc' = "idle") =>
       /\ applyIdx = Len(journal)
       /\ journal' = <<>>
       /\ vnodes' = vnodes
  /\ (pc = "idle" /\ pc' = "apply") => journal = <<>>
  /\ (pc = "apply" /\ journal = <<>>) => (vnodes' = vnodes /\ pc' = "idle")

\* C11: vnode_applyJournal dispatches the entries of the journal one by one in
\* append order, each exactly once and each with its own effect on the tree;
\* it returns with the journal empty, so applying again changes nothing.
C11_ApplyInOrder == [][C11_Step]_vars

\* a journal of several entries, a Move among them, has been dispatched to
\* its end
C11_Witness ==
  /\ pc = "apply"
  /\ applyIdx = Len(journal)
  /\ Len(JournalEntries) >= 2
  /\ \E i \in 1..Len(JournalEntries) : JournalEntries[i].op = VNodeJournalOpCode_Move

\* vnode_applyJournal is running a second time on the journal it emptied
C11_WitnessAgain ==
  /\ pc = "apply" /\ round = 1 /\ journal = <<>>
  /\ prevJsx = JNull /\ lastJsx = KeyedList(<<"A", "B", "C">>)

\* vnode_diff is running, or has returned and its journal is not yet applied
InDiffPass == pc \in {"diff", "drain", "await", "done"}

C12_Links ==
  InDiffPass =>
    \A n \in 1..Len(startNodes) :
      /\ vnodes[n].parent = startNodes[n].parent
      /\ vnodes[n].kids = startNodes[n].kids
      /\ vnodes[n].kind = startNodes[n].kind

C12_Append ==
  (pc \in {"idle", "diff", "drain", "await"} /\ pc' \in {"diff", "drain", "await", "done"}) =>
    /\ Len(journal') >= Len(journal)
    /\ SubSeq(journal', 1, Len(journal)) = journal

\* C12: from the call of vnode_diff to its completion, drained expansions
\* included, every node the tree held at the call keeps its parent and its
\* child list (first child and next siblings); the journal only grows at its end.
C12_NoStructuralMutation == [](C12_Links) /\ [][C12_Append]_vars

\* a pass that purged a text node, inserted a host and drained its expansion
C12_Witness ==
  /\ pc = "done"
  /\ prevJsx = El("div", <<JText("t"), JComp("S1", 1)>>)
  /\ lastJsx = El("div", <<JComp("PN", 1), JComp("P1", 3), JComp("S2", 1)>>)
  /\ Len(diffLog) >= 3
  /\ Len(journal) > 0

Rejected == pc = "failed" /\ err = "rejected"

C13_State ==
  Rejected =>
    /\ Len(diffLog) < Len(enqLog)
    /\ <<pending.jsx, pending.host>> = enqLog[Len(diffLog) + 1]
    /\ QueuePairs(asyncQueue) = SubSeq(enqLog, Len(diffLog) + 2, Len(enqLog))

C13_Step ==
  /\ pc = "await" =>
       \/ pc' = "diff" /\ diffLog' = Append(diffLog, <<pending.jsx, pending.host>>)
       \/ /\ Rejected'
          /\ journal' = journal /\ diffLog' = diffLog /\ asyncQueue' = asyncQueue
          /\ vnodes' = vnodes /\ pending' = pending
  /\ ~Rejected

\* C13: when the promise of an expansion rejects, vnode_diff's completion
\* fails with that rejection; the pair it was queued with is not diffed, the
\* pairs queued after it stay queued and undiffed, and no step follows, so
\* nothing is appended to the journal.
C13_Rejection == [](C13_State) /\ [][C13_Step]_vars

\* a rejection with two pairs still queued behind the rejected one
C13_Witness ==
  /\ Rejected
  /\ Len(asyncQueue) = 4
  /\ Len(journal) > 0

\* the descriptor under the engine's hand is one it does not support
Unsupported ==
  /\ pc = "diff" /\ stack # <<>> /\ jsxIdx < jsxCount
  /\ jsxValue.t \in {"slot", "badtype", "object", "null"}

C14_Step ==
  /\ Unsupported =>
       /\ pc' = "failed" /\ err' # ""
       /\ journal' = journal
       /\ asyncQueue' = asyncQueue /\ diffLog' = diffLog
       /\ stack' = stack /\ jsxIdx' = jsxIdx
       /\ vnodes' = vnodes
  /\ pc # "failed"

\* C14: a slot descriptor, a descriptor of an unknown type and an object that
\* is neither array nor descriptor stop the diff with an error at that
\* descriptor: the journal, the stack and the queue stay as they are and no
\* step follows (no sibling, no enclosing frame, no drain).
C14_FatalAbort == [][C14_Step]_vars

\* a slot met with an expansion queued and entries already in the journal
C14_Witness ==
  /\ pc = "failed" /\ err = "IMPLEMENT"
  /\ asyncQueue # <<>>
  /\ journal # <<>>
  /\ jsxValue = JSlot

\* the entry of a materialized key table that follows the entry of node n
TableNext(arr, n) ==
  IF \E k \in 1..(Len(arr) \div 2) : arr[2 * k] = VNodeRef(n)
  THEN LET k == CHOOSE k \in 1..(Len(arr) \div 2) : arr[2 * k] = VNodeRef(n)
       IN IF 2 * k + 2 <= Len(arr) THEN RefNode(arr[2 * k + 2]) ELSE NoNode
  ELSE NoNode
\* the successor of node n among the children still to be compared
SuccessorOf(sib, n) ==
  IF sib.isNull THEN vnode_getNextSibling(vnodes, n) ELSE TableNext(sib.arr, n)

\* a text or number descriptor: reconciled with the text node at the cursor,
\* or inserted in front of the cursor node
C15_Text(withInsert) ==
  (TextStep /\ pc' = "diff") =>
    IF vCurrent # NoNode /\ vnode_getType(vnodes, vCurrent) = "text"
    THEN vCurrent' = SuccessorOf(vSiblings, vCurrent)
    ELSE withInsert => vCurrent' = vCurrent

\* a component descriptor: reconciled with the virtual node that follows the
\* purged text nodes, or a host inserted in front of that node
C15_Component ==
  (ComponentStep /\ pc' = "diff") =>
    LET c == SkipText(vnodes, vCurrent) IN
    IF c # NoNode /\ vnode_isVirtualVNode(vnodes, c)
    THEN vCurrent' = SuccessorOf(vSiblings, c)
    ELSE vCurrent' = c

\* an element or fragment descriptor is done when its frame is popped: the
\* frame holds the cursor it was compared with and the node inserted or moved
C15_Frame ==
  (FrameEndStep /\ Len(stack) >= 2 /\ Last(stack).descendVNode /\ pc' = "diff") =>
    LET f == Last(stack) IN
    IF f.vNewNode # NoNode THEN vCurrent' = f.vCurrent
    ELSE vCurrent' = SuccessorOf(f.vSiblings, f.vCurrent)

\* C15: once a descriptor is processed, the cursor is the successor of the
\* node it was reconciled with, or, when a node was inserted or moved in front
\* of the cursor node, still that cursor node.
C15_CursorStep == [][C15_Text(TRUE) /\ C15_Component /\ C15_Frame]_vars

\* the rule holds of every descriptor but a text inserted as a new node
C15_CursorStepButTextInsert == [][C15_Text(FALSE) /\ C15_Component /\ C15_Frame]_vars

\* the children still to be compared: the cursor node and its next siblings,
\* or the entries of the key table from vSiblingsIdx on once it is materialized
RemainingSiblings(c) ==
  IF vSiblings.isNull
  THEN IF c = NoNode THEN {}
       ELSE LET ks == vnodes[vnodes[c].parent].kids
            IN {ks[j] : j \in IndexOf(ks, c)..Len(ks)}
  ELSE {RefNode(vSiblings.arr[2 * k]) :
          k \in (vSiblingsIdx \div 2 + 1)..(Len(vSiblings.arr) \div 2)}

StoredKey(vn, n) == vnode_getProp(vn, n, ELEMENT_KEY)
\* the entries the step appended to the journal
Appended == Entries(SubSeq(journal', Len(journal) + 1, Len(journal')), 0)

C16_Step ==
  ElementStep =>
    LET c == SkipText(vnodes, vCurrent)
        jsx == jsxValue
        matches == /\ c # NoNode /\ vnode_isElementVNode(vnodes, c)
                   /\ vnode_getElementName(vnodes, c) = jsx.tag
                   /\ StoredKey(vnodes, c) = jsx.key
        target == vParent'
        rem == RemainingSiblings(c)
        moves == {i \in 1..Len(Appended) : Appended[i].op = VNodeJournalOpCode_Move}
        inserts == {i \in 1..Len(Appended) : Appended[i].op = VNodeJournalOpCode_Insert}
    IN ~matches =>
         /\ \A i \in moves :
              LET n == RefNode(Appended[i].args[2])
              IN n \in rem /\ jsx.key # Null /\ StoredKey(vnodes, n) = jsx.key
         /\ (jsx.key = Null \/ \A n \in rem : StoredKey(vnodes, n) # jsx.key) =>
              /\ target = Len(vnodes) + 1
              /\ vnodes'[target].kind = "element" /\ vnodes'[target].tag = jsx.tag
              /\ \E i \in inserts : Appended[i].args[2] = VNodeRef(target)
         /\ target <= Len(vnodes) =>
              /\ vnode_isElementVNode(vnodes, target)
              /\ vnode_getElementName(vnodes, target) = jsx.tag
              /\ StoredKey(vnodes, target) = jsx.key

\* C16: an element descriptor that does not match the cursor node by tag and
\* key is given a Move only of a remaining sibling that stores its key, and
\* otherwise (no key, or no such sibling) an Insert of a new element of its
\* tag; it is never reconciled onto a node of another tag or key.
C16_MoveOrInsert == [][C16_Step]_vars

\* the nodes a keyed lookup has returned in the frame of parent p: the nodes
\* of the Move entries of p, in journal order
MovedIn(p) ==
  [i \in 1..CountOp(VNodeJournalOpCode_Move) |->
     LET ms == SelectSeq(JournalEntries, LAMBDA e : e.op = VNodeJournalOpCode_Move)
     IN IF ms[i].args[1] = VNodeRef(p) THEN RefNode(ms[i].args[2]) ELSE NoNode]
MovedSet(p) == {MovedIn(p)[i] : i \in 1..Len(MovedIn(p))} \ {NoNode}

C17_State ==
  (pc = "diff" /\ stack # <<>>) =>
    /\ vCurrent \notin MovedSet(vParent)
    /\ \A i, j \in 1..Len(MovedIn(vParent)) :
         (i # j /\ MovedIn(vParent)[i] # NoNode) => MovedIn(vParent)[i] # MovedIn(vParent)[j]

\* C17: in the frame of a parent, a node that a keyed lookup returned is not
\* the cursor node afterwards and is not returned by a later lookup.
C17_ReconciledOnce == [](C17_State)

\* C17 holds as long as every lookup was made with the key of its descriptor,
\* so that every node it returned stores a key
C17_OnceWithKeyedLookups ==
  (\A i \in 1..Len(JournalEntries) :
     JournalEntries[i].op = VNodeJournalOpCode_Move
       => StoredKey(vnodes, RefNode(JournalEntries[i].args[2])) # Null)
    => C17_State

\* C18: every host enqueued with an expansion, and every node that stores a
\* render source or component props, is a virtual node.
C18_HostIsVirtual ==
  /\ \A i \in 1..Len(enqLog) : vnode_isVirtualVNode(vnodes, enqLog[i][2])
  /\ \A n \in 1..Len(vnodes) :
       (vnode_getProp(vnodes, n, OnRenderProp) # Null
          \/ vnode_getProp(vnodes, n, ELEMENT_PROPS) # Null)
         => vnode_isVirtualVNode(vnodes, n)

\* C18 holds when the cursor node, text nodes purged, is absent or virtual
C18_HostAtVirtualCursor ==
  [][(ComponentStep
        /\ (SkipText(vnodes, vCurrent) = NoNode
              \/ vnode_isVirtualVNode(vnodes, SkipText(vnodes, vCurrent))))
       => \A i \in 1..Len(enqLog') :
            i > Len(enqLog) => vnode_isVirtualVNode(vnodes', enqLog'[i][2])]_vars

\* the maximal run of consecutive text nodes that starts at node v
RECURSIVE TextRun(_, _)
TextRun(vn, v) ==
  IF v # NoNode /\ vn[v].kind = "text"
  THEN <<v>> \o TextRun(vn, vnode_getNextSibling(vn, v))
  ELSE <<>>

\* the step that processes an element, fragment or component descriptor
NodeStep == pc = "diff" /\ stack # <<>> /\ jsxIdx < jsxCount
            /\ jsxValue.t \in {"element", "fragment", "component"} /\ pc' = "diff"

PlacedEntries == {i \in 1..Len(Appended) :
                    Appended[i].op \in {VNodeJournalOpCode_Insert, VNodeJournalOpCode_Move}}

\* one Remove per text node of the run, in sibling order, before anything
\* else; the node that follows the run is the one matched or inserted before
C19_Purge ==
  NodeStep =>
    LET run == TextRun(vnodes, vCurrent)
        c == SkipText(vnodes, vCurrent)
    IN /\ Len(Appended) >= Len(run)
       /\ \A i \in 1..Len(run) :
            /\ Appended[i].op = VNodeJournalOpCode_Remove
            /\ Appended[i].args = <<VNodeRef(vParent), VNodeRef(run[i])>>
       /\ \A i \in 1..Len(Appended) :
            Appended[i].op = VNodeJournalOpCode_Remove => i <= Len(run)
       /\ \A i \in PlacedEntries : Appended[i].args[3] = VNodeRef(c)
       /\ (PlacedEntries = {} /\ jsxValue.t # "component") => vParent' = c

\* the node an element or fragment descriptor is reconciled onto (the step
\* descends into it) is not a text node
C19_NotOntoText ==
  (NodeStep /\ jsxValue.t # "component") => vnodes'[vParent'].kind # "text"

\* C19: before an element, fragment or component descriptor is matched, the
\* run of text nodes at the cursor is removed, one Remove each in sibling
\* order, the cursor is on the node after the run, and the descriptor is not
\* reconciled with a text node.
C19_TextPurge == [][C19_Purge /\ C19_NotOntoText]_vars

\* the purge itself holds on every element, fragment and component step
C19_PurgeOnly == [][C19_Purge]_vars

AssertionErrors == {"Parent and current can't be the same",
                    "Expecting vCurrent to be defined."}

\* C20: while a diff pass runs, the parent and the cursor are different
\* nodes, the cursor is null or a child of the current parent, and no
\* assertion of the engine fails (so every descent has a cursor or a pending
\* new node to descend into).
C20_Invariants ==
  /\ pc = "diff" =>
       /\ vParent # vCurrent
       /\ vParent # NoNode
       /\ vCurrent = NoNode
            \/ (vnodes[vCurrent].parent = vParent
                  /\ IndexOf(vnodes[vParent].kids, vCurrent) # 0)
  /\ err \notin AssertionErrors

\* in a later pass the engine has descended below the start node and stands
\* on an existing child
C20_Witness ==
  /\ pc = "diff" /\ round >= 1 /\ err = ""
  /\ vParent # vStartNode /\ vnodes[vParent].parent # NoNode
  /\ vCurrent # NoNode /\ vnodes[vCurrent].parent = vParent
  /\ jsxIdx < jsxCount

\* the entry that vnode_applyJournal decodes at applyIdx
ApplyEntry == Head(Entries(journal, applyIdx))
AttributesStep ==
  /\ pc = "apply" /\ pc' = "apply" /\ applyIdx < Len(journal)
  /\ journal[applyIdx + 1] = Num(VNodeJournalOpCode_Attributes)
MoveStep ==
  /\ pc = "apply" /\ pc' = "apply" /\ applyIdx < Len(journal)
  /\ journal[applyIdx + 1] = Num(VNodeJournalOpCode_Move)

\* the pairs of a block, and the value the last pair for key k leaves
PairCount(e) == (Len(e.args) - 1) \div 2
BlockKeys(e) == {e.args[2 * i].s : i \in 1..PairCount(e)}
LastValue(e, k) ==
  LET i == CHOOSE i \in 1..PairCount(e) :
             e.args[2 * i].s = k /\ \A m \in 1..PairCount(e) : e.args[2 * m].s = k => m <= i
      v == e.args[2 * i + 1]
  IN IF v.t \in {"null", "undefined"} THEN Null ELSE v
HandlerShaped(k) == k \in {"onClick$"}

C21_Block ==
  AttributesStep =>
    LET e == ApplyEntry
        v == RefNode(e.args[1])
    IN /\ \A i \in 1..PairCount(e) : e.args[2 * i].t = "string"
       /\ applyIdx' = applyIdx + 2 + 2 * PairCount(e)
       /\ applyIdx' = Len(journal) \/ journal[applyIdx' + 1].t = "number"
       /\ \A k \in BlockKeys(e) :
            /\ mapArray_get(vnodes'[v].attrs, k) = LastValue(e, k)
            /\ mapArray_get(vnodes'[v].dom, k) =
                 IF HandlerShaped(k) THEN mapArray_get(vnodes[v].dom, k) ELSE LastValue(e, k)
       /\ \A i \in 1..Len(KeyOrder) :
            KeyOrder[i] \notin BlockKeys(e) =>
              /\ mapArray_get(vnodes'[v].attrs, KeyOrder[i]) = mapArray_get(vnodes[v].attrs, KeyOrder[i])
              /\ mapArray_get(vnodes'[v].dom, KeyOrder[i]) = mapArray_get(vnodes[v].dom, KeyOrder[i])
       /\ Len(vnodes'[v].attrs) \div 2 =
            Cardinality({i \in 1..Len(KeyOrder) : mapArray_get(vnodes'[v].attrs, KeyOrder[i]) # Null})
       /\ vnodes' = [vnodes EXCEPT ![v].attrs = vnodes'[v].attrs, ![v].dom = vnodes'[v].dom]

C21_Move ==
  MoveStep =>
    LET p == RefNode(ApplyEntry.args[1])
        n == RefNode(ApplyEntry.args[2])
        ref == RefNode(ApplyEntry.args[3])
    IN /\ applyIdx' = applyIdx + 4
       /\ Without(vnodes'[p].kids, n) = Without(vnodes[p].kids, n)
       /\ PlacedBefore(vnodes'[p].kids, n, ref)
       /\ vnodes'[n].parent = p
       /\ vnodes'[n].cleaned = vnodes[n].cleaned
       /\ \A m \in 1..Len(vnodes) : m \notin {p, n} => vnodes'[m] = vnodes[m]

\* C21: replaying an Attributes block applies every pair of the block to the
\* block's vnode, handler-shaped keys through the property setter and all
\* others through the attribute setter, whatever the value (null and strings
\* included), and decoding resumes at the next opcode; a Move is a remove
\* without cleanup followed by an insert-before of the same node under the
\* same parent.
C21_AttributesAndMove == [][C21_Block /\ C21_Move]_vars

\* a journal has been replayed to its end that held an Attributes block with
\* a handler-shaped key, a null value and a string value, and a Move after it
C21_Witness ==
  /\ pc = "apply" /\ err = "" /\ applyIdx = Len(journal)
  /\ \E i \in 1..Len(JournalEntries) :
       LET e == JournalEntries[i] IN
       /\ e.op = VNodeJournalOpCode_Attributes
       /\ \E m \in 1..PairCount(e) : HandlerShaped(e.args[2 * m].s)
       /\ \E m \in 1..PairCount(e) : e.args[2 * m + 1] = Null
       /\ \E m \in 1..PairCount(e) : e.args[2 * m + 1].t = "string"
       /\ \E k \in (i + 1)..Len(JournalEntries) :
            JournalEntries[k].op = VNodeJournalOpCode_Move

\* the nodes that the entries of the journal applied so far have removed:
\* linked when the pass started, or named by an applied Remove, and unlinked now
AppliedEntries == Entries(SubSeq(journal, 1, applyIdx), 0)
RemovedSoFar ==
  {n \in 2..Len(vnodes) :
     /\ vnodes[n].parent = NoNode
     /\ \/ (n <= Len(startNodes) /\ startNodes[n].parent # NoNode)
        \/ \E i \in 1..Len(AppliedEntries) :
             /\ AppliedEntries[i].op = VNodeJournalOpCode_Remove
             /\ AppliedEntries[i].args[2] = VNodeRef(n)}
RefsOf(e) == {RefNode(e.args[i]) : i \in 1..Len(e.args)} \ {NoNode}
IsChild(p, n) == p # NoNode /\ n # NoNode /\ IndexOf(vnodes[p].kids, n) # 0

Replayable(e) ==
  LET p == RefNode(e.args[1])
      n == RefNode(e.args[2])
  IN /\ RefsOf(e) \cap RemovedSoFar = {}
     /\ e.op \in {VNodeJournalOpCode_Insert, VNodeJournalOpCode_Move} =>
          LET ref == RefNode(e.args[3]) IN
          /\ ref = NoNode \/ IsChild(p, ref)
          /\ ref # n
     /\ e.op \in {VNodeJournalOpCode_Move, VNodeJournalOpCode_Remove,
                  VNodeJournalOpCode_Truncate} => IsChild(p, n)

\* C22: while the journal of a completed pass is applied in order, the entry
\* about to be applied names a reference that is null or a current child of
\* its parent and not the node itself, a node to move, remove or truncate at
\* that is a current child of its parent, and no node that an earlier entry
\* of the journal removed.
C22_Replayable ==
  (pc = "apply" /\ applyIdx < Len(journal)) => Replayable(ApplyEntry)

====
